---- MODULE Spec2Model ----
(***************************************************************************)
(* State-machine model of the Pokemon TCG rules engine (cpp_engine):       *)
(* GameState, legal-action generation and action application of            *)
(* PokemonEngine, the resolution stack, and the trainer handlers that push *)
(* resolution steps.                                                       *)
(***************************************************************************)
EXTENDS Integers, Sequences, FiniteSets, TLC

\* state: the GameState the caller holds; rng_: the engine's generator;
\* card_db_: the engine's CardDatabase, loaded once and then only read
\* modifiers_: the modifier callbacks registered with the engine's
\* LogicRegistry before the game; registration happens at start-up only
VARIABLES state, rng_, card_db_, modifiers_

vars == <<state, rng_, card_db_, modifiers_>>

\* ------------------------------------------------------------------------
\* Bounds of the model (not program constants)
\* ------------------------------------------------------------------------
MaxTurn == 2
RngMod == 2

\* ------------------------------------------------------------------------
\* Program constants
\* ------------------------------------------------------------------------
DEFAULT_MAX_BENCH == 5
PRIZE_COUNT == 6
ULTRA_BALL_DISCARD == 2
ULTRA_BALL_MIN_HAND == 3
BRIAR_OPPONENT_PRIZES == 2

\* ------------------------------------------------------------------------
\* Card database: the immutable definitions the games below are played with
\* ------------------------------------------------------------------------
NoDef == [card_id |-> "", name |-> "", supertype |-> "", subtypes |-> {}, hp |-> 0,
          types |-> {}, weakness |-> "", weakness_multiplier |-> 2,
          resistance |-> "", resistance_value |-> -30,
          attacks |-> <<>>, retreat_cost |-> 0, evolves_from |-> "",
          is_basic_energy |-> FALSE, energy_type |-> "", provides |-> <<>>]

CardDefs ==
    [d \in {"pk-A", "pk-B", "pk-C", "pk-D", "pk-Z", "en-F", "sv1-181", "sv1-196",
            "sv7-132", "me2-87", "sv7-131", "st-B", "tl-A", "sv1-191",
            "me1-114", "sv2-188", "sv6pt5-61",
            "pk-ex", "pk-V", "pk-VSTAR", "pk-VMAX", "pk-GX",
            "pk-T", "pk-F", "pk-H", "pk-FH", "sv7-174", "pk-O",
            "sv2-185"} |->
       CASE d = "pk-A" ->
              [NoDef EXCEPT !.name = "Alpha", !.supertype = "Pokemon",
                            !.subtypes = {"Basic"}, !.hp = 60,
                            !.attacks = <<[name |-> "Hit", cost |-> <<"Colorless">>,
                                           base_damage |-> 30]>>,
                            !.retreat_cost = 1]
         [] d = "pk-B" ->
              [NoDef EXCEPT !.name = "Beta", !.supertype = "Pokemon",
                            !.subtypes = {"Basic"}, !.hp = 30,
                            !.attacks = <<[name |-> "Jab", cost |-> <<>>,
                                           base_damage |-> 30]>>,
                            !.retreat_cost = 1]
         [] d = "pk-C" ->
              [NoDef EXCEPT !.name = "Gamma", !.supertype = "Pokemon",
                            !.subtypes = {"Stage 1"}, !.hp = 90,
                            !.evolves_from = "Beta",
                            !.attacks = <<[name |-> "Bash", cost |-> <<"Colorless">>,
                                           base_damage |-> 30]>>,
                            !.retreat_cost = 1]
         [] d = "pk-D" ->
              [NoDef EXCEPT !.name = "Delta", !.supertype = "Pokemon",
                            !.subtypes = {"Stage 2"}, !.hp = 120,
                            !.evolves_from = "Gamma",
                            !.attacks = <<[name |-> "Crush", cost |-> <<"Colorless">>,
                                           base_damage |-> 60]>>,
                            !.retreat_cost = 2]
         [] d = "pk-Z" ->
              [NoDef EXCEPT !.name = "Zeta", !.supertype = "Pokemon",
                            !.subtypes = {"Basic"}, !.hp = 60,
                            !.attacks = <<[name |-> "Tap", cost |-> <<>>,
                                           base_damage |-> 30]>>]
         [] d \in {"pk-ex", "pk-V", "pk-VSTAR", "pk-VMAX", "pk-GX"} ->
              [NoDef EXCEPT !.name = d, !.supertype = "Pokemon", !.hp = 30,
                            !.subtypes = CASE d = "pk-ex" -> {"Basic", "ex"}
                                           [] d = "pk-V" -> {"Basic", "V"}
                                           [] d = "pk-VSTAR" -> {"VSTAR"}
                                           [] d = "pk-VMAX" -> {"VMAX"}
                                           [] d = "pk-GX" -> {"Basic", "GX"},
                            !.attacks = <<[name |-> "Jab", cost |-> <<>>,
                                           base_damage |-> 30]>>,
                            !.retreat_cost = 1]
         [] d = "pk-T" ->
              [NoDef EXCEPT !.name = "Theta", !.supertype = "Pokemon",
                            !.subtypes = {"Basic"}, !.hp = 200,
                            !.types = {"Grass"}, !.weakness = "Fire",
                            !.resistance = "Water",
                            !.attacks = <<[name |-> "Tap", cost |-> <<>>,
                                           base_damage |-> 30]>>]
         [] d \in {"pk-F", "pk-H", "pk-FH"} ->
              [NoDef EXCEPT !.name = d, !.supertype = "Pokemon",
                            !.subtypes = {"Basic"}, !.hp = 60,
                            !.types = CASE d = "pk-F" -> {"Fire"}
                                        [] d = "pk-H" -> {"Water"}
                                        [] d = "pk-FH" -> {"Fire", "Water"},
                            !.attacks = <<[name |-> "Tap", cost |-> <<>>,
                                           base_damage |-> 30]>>]
         [] d = "en-F" ->
              [NoDef EXCEPT !.name = "Fire Energy", !.supertype = "Energy",
                            !.is_basic_energy = TRUE, !.energy_type = "Fire"]
         [] d = "sv1-181" ->
              [NoDef EXCEPT !.name = "Nest Ball", !.supertype = "Trainer",
                            !.subtypes = {"Item"}]
         [] d = "sv1-191" ->
              [NoDef EXCEPT !.name = "Rare Candy", !.supertype = "Trainer",
                            !.subtypes = {"Item"}]
         [] d = "sv1-196" ->
              [NoDef EXCEPT !.name = "Ultra Ball", !.supertype = "Trainer",
                            !.subtypes = {"Item"}]
         [] d = "sv2-185" ->
              [NoDef EXCEPT !.name = "Iono", !.supertype = "Trainer",
                            !.subtypes = {"Supporter"}]
         [] d = "me1-114" ->
              [NoDef EXCEPT !.name = "Boss's Orders", !.supertype = "Trainer",
                            !.subtypes = {"Supporter"}]
         [] d = "sv2-188" ->
              [NoDef EXCEPT !.name = "Super Rod", !.supertype = "Trainer",
                            !.subtypes = {"Item"}]
         [] d = "sv6pt5-61" ->
              [NoDef EXCEPT !.name = "Night Stretcher", !.supertype = "Trainer",
                            !.subtypes = {"Item"}]
         [] d = "sv7-132" ->
              [NoDef EXCEPT !.name = "Briar", !.supertype = "Trainer",
                            !.subtypes = {"Supporter"}]
         [] d = "me2-87" ->
              [NoDef EXCEPT !.name = "Dawn", !.supertype = "Trainer",
                            !.subtypes = {"Supporter"}]
         [] d = "sv7-131" ->
              [NoDef EXCEPT !.name = "Area Zero Underdepths", !.supertype = "Trainer",
                            !.subtypes = {"Stadium"}]
         [] d = "sv7-174" ->
              [NoDef EXCEPT !.name = "Area Zero Underdepths", !.supertype = "Trainer",
                            !.subtypes = {"Stadium"}]
         [] d = "pk-O" ->
              [NoDef EXCEPT !.name = "Omega", !.supertype = "Pokemon",
                            !.subtypes = {"Basic", "Tera", "ex"}, !.hp = 200,
                            !.attacks = <<[name |-> "Tap", cost |-> <<>>,
                                           base_damage |-> 30]>>,
                            !.retreat_cost = 1]
         [] d = "st-B" ->
              [NoDef EXCEPT !.name = "Bravo Field", !.supertype = "Trainer",
                            !.subtypes = {"Stadium"}]
         [] d = "tl-A" ->
              [NoDef EXCEPT !.name = "Charm", !.supertype = "Trainer",
                            !.subtypes = {"Pokemon Tool"}]]

CardDb == [d \in DOMAIN CardDefs |-> [CardDefs[d] EXCEPT !.card_id = d]]

\* card instance id -> the definition id the card was created with
DefIdOf ==
    [i \in {"a0", "b0", "s0", "e0", "g0", "d0", "d1", "d2",
            "a1", "u1", "n1", "h1", "c0", "c1", "c2",
            "p01", "p02", "p03", "p04", "p05", "p06",
            "p11", "p12", "p13", "p14", "p15", "p16",
            "z1", "y1", "w1", "s1", "t1", "v1", "f1", "g1", "k1", "c3", "c4",
            "x0", "v0", "r0", "m0", "j0", "q0", "g2", "k0", "y0", "f0",
            "o1", "r1", "i1", "t0", "w2", "w3", "w4", "t2", "x1", "l1"} |->
       CASE i \in {"b0", "d2", "h1", "c2"} -> "pk-A"
         [] i \in {"a0", "d1", "a1", "c1"} -> "pk-B"
         [] i \in {"g0", "g1", "g2"} -> "pk-C"
         [] i \in {"k0", "k1"} -> "pk-D"
         [] i \in {"z1", "y1"} -> "pk-Z"
         [] i = "u1" -> "sv1-196"
         [] i = "n1" -> "sv1-181"
         [] i = "y0" -> "sv1-191"
         [] i \in {"s0", "s1"} -> "sv7-132"
         [] i = "w1" -> "me2-87"
         [] i = "t0" -> "pk-T"
         [] i = "w2" -> "pk-F"
         [] i = "w3" -> "pk-H"
         [] i = "w4" -> "pk-FH"
         [] i = "o1" -> "me1-114"
         [] i = "r1" -> "sv2-188"
         [] i = "i1" -> "sv6pt5-61"
         [] i = "t1" -> "sv7-131"
         [] i = "t2" -> "sv7-174"
         [] i = "x1" -> "pk-O"
         [] i = "l1" -> "sv2-185"
         [] i = "v1" -> "st-B"
         [] i = "q0" -> "tl-A"
         [] i = "x0" -> "pk-ex"
         [] i = "v0" -> "pk-V"
         [] i = "r0" -> "pk-VSTAR"
         [] i = "m0" -> "pk-VMAX"
         [] i = "j0" -> "pk-GX"
         [] OTHER -> "en-F"]

CardIds == DOMAIN DefIdOf

\* CardInstance::owner_id: the player whose deck list the card came from
owner_id(i) ==
    IF i \in {"a0", "b0", "s0", "e0", "g0", "d0", "d1", "d2",
              "x0", "v0", "r0", "m0", "j0", "q0", "g2", "k0", "y0", "f0", "t0", "t2",
              "p01", "p02", "p03", "p04", "p05", "p06"} THEN 0 ELSE 1

\* CardInstance as the deck loader creates it: its instance id, the id of its
\* definition, and its mutable runtime state; attached cards and previous
\* stages are kept by instance id (their own runtime state is the default one)
MkCard(i) == [id |-> i, card_id |-> IF i \in CardIds THEN DefIdOf[i] ELSE "",
              damage_counters |-> 0, current_hp |-> 0,
              status |-> {}, attached_energy |-> <<>>, attached_tools |-> <<>>,
              previous_stages |-> <<>>, turns_in_play |-> 0,
              evolved_this_turn |-> FALSE, attack_effects |-> <<>>]

\* the id a moved-from CardInstance is left with (std::string after std::move)
MovedFromId == ""

Def(card) == card_db_[card.card_id]
DefById(i) == CardDb[DefIdOf[i]]

is_pokemon(def) == def.supertype = "Pokemon"
is_trainer(def) == def.supertype = "Trainer"
is_energy(def) == def.supertype = "Energy"
is_basic_pokemon(def) == is_pokemon(def) /\ "Basic" \in def.subtypes
is_item(def) == "Item" \in def.subtypes
is_supporter(def) == "Supporter" \in def.subtypes
is_stadium(def) == "Stadium" \in def.subtypes
is_tool(def) == "Pokemon Tool" \in def.subtypes
is_ex(def) == "ex" \in def.subtypes
is_tera(def) == "Tera" \in def.subtypes

\* faulty variant: every knockout is worth one prize card
get_prize_value_flat(def) == 1

get_prize_value(def) ==
    IF is_ex(def) THEN 2
    ELSE IF "VSTAR" \in def.subtypes THEN 2
    ELSE IF "V" \in def.subtypes THEN 2
    ELSE IF "VMAX" \in def.subtypes THEN 3
    ELSE IF "GX" \in def.subtypes THEN 2
    ELSE 1

\* CardDef::get_functional_id: name, then hp and attack signatures (Pokemon),
\* energy type and basic mark (Energy), or the card_id (Trainer)
get_functional_id(def) ==
    [name |-> def.name,
     hp |-> IF is_pokemon(def) THEN def.hp ELSE 0,
     attacks |-> IF is_pokemon(def)
                 THEN [k \in DOMAIN def.attacks |->
                         <<def.attacks[k].name, Len(def.attacks[k].cost),
                           def.attacks[k].base_damage>>]
                 ELSE <<>>,
     energy |-> IF ~is_pokemon(def) /\ is_energy(def) THEN def.energy_type ELSE "",
     basic |-> ~is_pokemon(def) /\ is_energy(def) /\ def.is_basic_energy,
     trainer |-> IF ~is_pokemon(def) /\ ~is_energy(def) /\ is_trainer(def)
                 THEN def.card_id ELSE ""]

\* ------------------------------------------------------------------------
\* Sequence helpers
\* ------------------------------------------------------------------------
Range(s) == {s[i] : i \in DOMAIN s}
Ids(s) == {s[i].id : i \in DOMAIN s}
SeqSum(f, n) == LET RECURSIVE Go(_)
                    Go(k) == IF k = 0 THEN 0 ELSE f[k] + Go(k - 1)
                IN Go(n)
RemoveAt(s, k) == [i \in 1..(Len(s) - 1) |-> IF i < k THEN s[i] ELSE s[i + 1]]
IndexOfId(s, i) == IF \E k \in DOMAIN s : s[k].id = i
                   THEN CHOOSE k \in DOMAIN s :
                          s[k].id = i /\ \A j \in 1..(k - 1) : s[j].id # i
                   ELSE 0

\* Zone::take_card: remove the first card with that id
take_card(zone, i) ==
    LET k == IndexOfId(zone, i)
    IN IF k = 0 THEN [found |-> FALSE, card |-> MkCard(i), zone |-> zone]
       ELSE [found |-> TRUE, card |-> zone[k], zone |-> RemoveAt(zone, k)]

\* Zone::add_card with the default position: push_back
add_card(zone, card) == Append(zone, card)

\* Zone::draw_top: index 0 of the vector
draw_top(zone) == [card |-> Head(zone), zone |-> Tail(zone)]

\* Zone::shuffle(rng): std::shuffle, a permutation fixed by the generator's
\* state; the generator is abstracted to a counter modulo RngMod, which a
\* shuffle of two or more cards advances
ShuffleSeq(s, r) ==
    IF Len(s) = 0 THEN s
    ELSE LET k == r % Len(s)
         IN [i \in 1..Len(s) |-> s[((i - 1 + k) % Len(s)) + 1]]
RngNext(r) == (r + 1) % RngMod

\* ------------------------------------------------------------------------
\* PlayerState, Board and GameState
\* ------------------------------------------------------------------------
Players == {0, 1}

\* PlayerState with its Board (active_spot is an optional: a sequence of
\* length 0 or 1)
MkPlayer(deck, hand, prizes, active, bench) ==
    [deck |-> deck, hand |-> hand, discard |-> <<>>, prizes |-> prizes,
     active |-> active, bench |-> bench, max_bench_size |-> DEFAULT_MAX_BENCH,
     supporter_played_this_turn |-> FALSE, energy_attached_this_turn |-> FALSE,
     retreated_this_turn |-> FALSE, stadium_played_this_turn |-> FALSE,
     prizes_taken |-> 0, has_searched_deck |-> FALSE]

\* GameState with the defaults of its member initialisers
MkState(p0, p1) ==
    [players |-> [p \in Players |-> IF p = 0 THEN p0 ELSE p1],
     turn_count |-> 1, active_player_index |-> 0, starting_player_id |-> 0,
     current_phase |-> "SETUP", stadium |-> <<>>, active_effects |-> <<>>,
     result |-> "ONGOING", winner_id |-> -1, rng |-> 0,
     resolution_stack |-> <<>>]

Cards(ids) == [k \in DOMAIN ids |-> MkCard(ids[k])]

has_active(pl) == Len(pl.active) > 0
get_bench_count(pl) == Len(pl.bench)
can_add_to_bench(pl) == get_bench_count(pl) < pl.max_bench_size

\* Area Zero Underdepths: a Tera Pokemon in the active spot or on the bench
player_has_tera_pokemon(s, player_id) ==
    \E c \in Range(s.players[player_id].active) \cup Range(s.players[player_id].bench) :
       is_tera(Def(c))

EXPANDED_BENCH_SIZE == 8

calculate_bench_size(s, player_id) ==
    IF player_has_tera_pokemon(s, player_id) THEN EXPANDED_BENCH_SIZE
    ELSE DEFAULT_MAX_BENCH

\* the printings register_area_zero_underdepths registers a handler for
AreaZeroIds == {"sv7-131", "sv7-174", "sv8pt5-94"}

\* the bench size query of the registry: that of the stadium in play when it
\* has a bench_size handler, 5 otherwise
get_stadium_bench_size(s, player_id) ==
    IF Len(s.stadium) = 0 THEN DEFAULT_MAX_BENCH
    ELSE IF s.stadium[1].card_id \in AreaZeroIds THEN calculate_bench_size(s, player_id)
    ELSE DEFAULT_MAX_BENCH
get_all_pokemon(pl) == pl.active \o pl.bench
has_any_pokemon(pl) == has_active(pl) \/ Len(pl.bench) > 0

\* Board::add_to_bench: refused when the bench is full
add_to_bench(pl, card) ==
    IF ~can_add_to_bench(pl) THEN pl
    ELSE [pl EXCEPT !.bench = Append(@, card)]

\* Board::switch_active: swap the active with the named bench Pokemon
switch_active(pl, bench_id) ==
    LET k == IndexOfId(pl.bench, bench_id)
    IN IF k = 0 \/ ~has_active(pl) THEN pl
       ELSE [pl EXCEPT !.active = <<pl.bench[k]>>,
                       !.bench = [@ EXCEPT ![k] = pl.active[1]]]

\* Board::promote_to_active: only into an empty active spot
promote_to_active(pl, bench_id) ==
    LET k == IndexOfId(pl.bench, bench_id)
    IN IF has_active(pl) \/ k = 0 THEN pl
       ELSE [pl EXCEPT !.active = <<pl.bench[k]>>,
                       !.bench = RemoveAt(@, k)]

\* PlayerState::reset_turn_flags
reset_turn_flags(pl) ==
    [pl EXCEPT !.supporter_played_this_turn = FALSE,
               !.energy_attached_this_turn = FALSE,
               !.retreated_this_turn = FALSE,
               !.stadium_played_this_turn = FALSE]

\* PlayerState::increment_turns_in_play
increment_turns_in_play(pl) ==
    LET Inc(c) == [c EXCEPT !.turns_in_play = (@ + 1) % 256,
                            !.evolved_this_turn = FALSE]
    IN [pl EXCEPT !.active = [k \in DOMAIN pl.active |-> Inc(pl.active[k])],
                  !.bench = [k \in DOMAIN pl.bench |-> Inc(pl.bench[k])]]

is_asleep_or_paralyzed(card) == card.status \cap {"ASLEEP", "PARALYZED"} # {}
is_knocked_out(card, max_hp) == card.damage_counters * 10 >= max_hp
total_attached_energy(card) == Len(card.attached_energy)

\* GameState::push_step
push_step(s, step) ==
    LET s1 == IF step.step_type = "SEARCH_DECK"
              THEN [s EXCEPT !.players[step.player_id].has_searched_deck = TRUE]
              ELSE s
    IN [s1 EXCEPT !.resolution_stack = Append(@, step)]

\* GameState::pop_step
pop_step(s) ==
    IF Len(s.resolution_stack) = 0 THEN s
    ELSE [s EXCEPT !.resolution_stack = SubSeq(@, 1, Len(@) - 1)]

\* ------------------------------------------------------------------------
\* Actions and resolution steps
\* ------------------------------------------------------------------------
Act(type, player, card, target, attack) ==
    [action_type |-> type, player_id |-> player, card_id |-> card,
     target_id |-> target, attack_name |-> attack]

\* the completion callbacks the effect builders create, named by their builder
NoCallback == ""

SelectFromZoneStep(source, player, purpose, zone, count, min_count, exact, filter, exclude, cb) ==
    [step_type |-> "SELECT_FROM_ZONE", source_card_id |-> source,
     player_id |-> player, purpose |-> purpose, is_complete |-> FALSE, on_complete |-> cb,
     zone |-> zone, count |-> count, min_count |-> min_count,
     exact_count |-> exact, filter_criteria |-> filter,
     exclude_card_ids |-> exclude, selected_card_ids |-> <<>>,
     destination |-> "HAND", shuffle_after |-> FALSE]

SearchDeckStep(source, player, count, min_count, destination, filter, shuffle_after, cb) ==
    [step_type |-> "SEARCH_DECK", source_card_id |-> source,
     player_id |-> player, purpose |-> "SEARCH_TARGET", is_complete |-> FALSE, on_complete |-> cb,
     zone |-> "DECK", count |-> count, min_count |-> min_count,
     exact_count |-> FALSE, filter_criteria |-> filter,
     exclude_card_ids |-> <<>>, selected_card_ids |-> <<>>,
     destination |-> destination, shuffle_after |-> shuffle_after]

has_completion_callback(step) == step.on_complete # NoCallback

get_selected_cards(step) == step.selected_card_ids

Top(s) == s.resolution_stack[Len(s.resolution_stack)]

\* ------------------------------------------------------------------------
\* Filters and energy
\* ------------------------------------------------------------------------
\* PokemonEngine::card_matches_filter: every known key must match, a key the
\* engine does not know is skipped
criterion_matches(def, key, value) ==
    CASE key = "supertype" ->
           \/ (value = "Pokemon" /\ is_pokemon(def))
           \/ (value = "Trainer" /\ is_trainer(def))
           \/ (value = "Energy" /\ is_energy(def))
      [] key = "subtype" -> value \in def.subtypes
      [] key = "max_hp" -> is_pokemon(def) /\ def.hp <= value
      [] key = "energy_type" -> is_energy(def) /\ def.energy_type = value
      [] key = "pokemon_type" -> is_pokemon(def) /\ value \in def.types
      [] key = "name" -> def.name = value
      [] key = "evolves_from" -> def.evolves_from # "" /\ def.evolves_from = value
      [] key = "rare_candy_target" ->
           value = "true" => (/\ is_pokemon(def)
                             /\ "Stage 2" \in def.subtypes
                             /\ def.evolves_from # "")
      [] key = "super_rod_target" ->
           value = "true" => (is_pokemon(def) \/ (is_energy(def) /\ def.is_basic_energy))
      [] key = "night_stretcher_target" -> value = "true" => is_pokemon(def)
      [] key = "is_basic" -> value = "true" => is_basic_pokemon(def)
      [] OTHER -> TRUE

card_matches_filter(card, filter) ==
    \A kv \in filter : criterion_matches(Def(card), kv[1], kv[2])

\* effects::card_matches_filter: the matcher of the effect builders, on a card
\* definition; it knows fewer keys, and skips every other key as well
effects_criterion_matches(def, key, value) ==
    CASE key = "supertype" ->
           /\ (value = "Pokemon" => is_pokemon(def))
           /\ (value = "Trainer" => is_trainer(def))
           /\ (value = "Energy" => is_energy(def))
      [] key = "subtype" ->
           /\ (value = "Basic" => is_basic_pokemon(def))
           /\ (value = "Stage 1" => (is_pokemon(def) /\ "Stage 1" \in def.subtypes))
           /\ (value = "Stage 2" => (is_pokemon(def) /\ "Stage 2" \in def.subtypes))
           /\ (value = "Item" => is_item(def))
           /\ (value = "Supporter" => is_supporter(def))
           /\ (value = "Stadium" => is_stadium(def))
           /\ (value = "Tool" => is_tool(def))
           /\ (value = "ex" => is_ex(def))
      [] key = "pokemon_type" -> value \in def.types
      [] key = "max_hp" -> def.hp <= value
      [] key = "name" -> def.name = value
      [] key = "evolves_from" -> def.evolves_from # "" /\ def.evolves_from = value
      [] key = "is_basic_energy" -> def.is_basic_energy = (value = "true")
      [] OTHER -> TRUE

effects_card_matches_filter(def, filter) ==
    \A kv \in filter : effects_criterion_matches(def, kv[1], kv[2])

\* effects::deck_has_matching_cards
deck_has_matching_cards(s, player_id, filter) ==
    \E k \in DOMAIN s.players[player_id].deck :
       effects_card_matches_filter(Def(s.players[player_id].deck[k]), filter)

\* what one attached energy card provides: a basic energy one unit of its
\* type, a special energy its provides list (Colorless when the list is empty)
ProvidedBy(i) ==
    IF i \notin CardIds THEN <<>>
    ELSE LET d == DefById(i)
         IN IF d.is_basic_energy THEN <<d.energy_type>>
            ELSE IF Len(d.provides) = 0 THEN <<"Colorless">>
            ELSE d.provides

\* PokemonEngine::calculate_provided_energy: the units of one energy type
calculate_provided_energy(pokemon, type) ==
    SeqSum([k \in DOMAIN pokemon.attached_energy |->
              Cardinality({j \in DOMAIN ProvidedBy(pokemon.attached_energy[k]) :
                             ProvidedBy(pokemon.attached_energy[k])[j] = type})],
           Len(pokemon.attached_energy))

\* PokemonEngine::can_pay_energy_cost: typed requirements first, Colorless is
\* paid with whatever is left
can_pay_energy_cost(pokemon, cost) ==
    LET Needed(type) == Cardinality({k \in DOMAIN cost : cost[k] = type})
        Specific == {cost[k] : k \in DOMAIN cost} \ {"Colorless"}
        provided_total == SeqSum([k \in DOMAIN pokemon.attached_energy |->
                                    Len(ProvidedBy(pokemon.attached_energy[k]))],
                                 Len(pokemon.attached_energy))
        specific_total == Len(cost) - Needed("Colorless")
    IN \/ Len(cost) = 0
       \/ /\ \A type \in Specific : calculate_provided_energy(pokemon, type) >= Needed(type)
          /\ provided_total - specific_total >= Needed("Colorless")

has_energy_for_attack(pokemon, cost) == can_pay_energy_cost(pokemon, cost)

\* LogicRegistry::apply_modifiers: every registered modifier whose key
\* "card:ability:context" contains ":context" is applied to the value, whatever
\* card it was registered for.  A modifier here adds its delta; the ability
\* names and contexts in use have no ":context" inside one another, so the
\* substring test comes down to the equality of the contexts.
RECURSIVE SumDeltas(_)
SumDeltas(ms) ==
    IF ms = {} THEN 0
    ELSE LET m == CHOOSE x \in ms : TRUE IN m.delta + SumDeltas(ms \ {m})

apply_modifiers(s, context, base_value) ==
    base_value + SumDeltas({m \in modifiers_ : m.context = context})

\* PokemonEngine::calculate_retreat_cost: the retreat_cost modifiers; no
\* global modifier is registered and no tool of CardDb changes the cost
calculate_retreat_cost(s, pokemon) ==
    LET cost == apply_modifiers(s, "retreat_cost", Def(pokemon).retreat_cost)
    IN IF cost < 0 THEN 0 ELSE cost

\* LogicRegistry::scan_global_modifiers: the modifiers of the given type
\* registered for the cards in play (both actives, both benches, the stadium),
\* one entry for every card in play and modifier of its definition; here the
\* sum of what the entries add
scan_global_modifiers(s, modifier_type) ==
    LET cards == s.players[0].active \o s.players[0].bench
                   \o s.players[1].active \o s.players[1].bench \o s.stadium
    IN SeqSum([k \in DOMAIN cards |->
                 SumDeltas({m \in modifiers_ : /\ m.card_id = cards[k].card_id
                                                /\ m.context = modifier_type})],
              Len(cards))

\* steps 2 and 3 of calculate_damage: the weakness multiplies when one of the
\* attacker's types is the defender's weakness, then the resistance value is
\* added when one of them is the defender's resistance
apply_weakness(attacker_def, defender_def, damage) ==
    IF defender_def.weakness # "" /\ defender_def.weakness \in attacker_def.types
    THEN damage * defender_def.weakness_multiplier
    ELSE damage

apply_resistance(attacker_def, defender_def, damage) ==
    IF defender_def.resistance # "" /\ defender_def.resistance \in attacker_def.types
    THEN damage + defender_def.resistance_value
    ELSE damage

clamp_damage(damage) == IF damage < 0 THEN 0 ELSE damage

\* faulty variant: the damage_taken modifiers are applied before weakness and
\* resistance
calculate_damage_taken_first(s, attacker, defender, base_damage) ==
    clamp_damage(
      apply_resistance(Def(attacker), Def(defender),
        apply_weakness(Def(attacker), Def(defender),
          apply_modifiers(s, "damage_taken",
            apply_modifiers(s, "damage_dealt", base_damage))))
      + scan_global_modifiers(s, "global_damage"))

\* PokemonEngine::calculate_damage: damage_dealt modifiers, weakness,
\* resistance, damage_taken modifiers, global modifiers, and the clamp at zero
calculate_damage(s, attacker, defender, base_damage) ==
    clamp_damage(
      apply_modifiers(s, "damage_taken",
        apply_resistance(Def(attacker), Def(defender),
          apply_weakness(Def(attacker), Def(defender),
            apply_modifiers(s, "damage_dealt", base_damage))))
      + scan_global_modifiers(s, "global_damage"))

\* PokemonEngine::apply_damage
apply_damage(defender, damage) ==
    [defender EXCEPT !.damage_counters = @ + (damage \div 10)]

\* LogicRegistry::check_global_block: no card of CardDb registers a guard
check_global_block(s, key) == FALSE

\* ------------------------------------------------------------------------
\* Legal actions
\* ------------------------------------------------------------------------
\* the generators walk a zone in order and keep the first card of each
\* functional id among the eligible ones
FirstOfFid(zone, eligible) ==
    {k \in eligible : \A j \in eligible :
        j < k => get_functional_id(Def(zone[j])) # get_functional_id(Def(zone[k]))}

get_setup_actions(s) ==
    LET p == s.active_player_index
        pl == s.players[p]
        basics == {k \in DOMAIN pl.hand : is_basic_pokemon(Def(pl.hand[k]))}
    IN IF ~has_active(pl)
       THEN IF basics = {}
            THEN {Act("REVEAL_HAND_MULLIGAN", p, "", "", "")}
            ELSE {Act("PLACE_ACTIVE", p, pl.hand[k].id, "", "") : k \in basics}
       ELSE {Act("PLACE_BENCH", p, pl.hand[k].id, "", "") :
               k \in {j \in basics : can_add_to_bench(pl)}}
            \cup {Act("END_TURN", p, "", "", "")}

get_mulligan_actions(s) ==
    {Act("MULLIGAN_DRAW", s.active_player_index, "", "", "")}

get_energy_attach_actions(s) ==
    LET p == s.active_player_index
        pl == s.players[p]
        targets == get_all_pokemon(pl)
        energy == FirstOfFid(pl.hand, {k \in DOMAIN pl.hand : is_energy(Def(pl.hand[k]))})
    IN IF pl.energy_attached_this_turn \/ ~has_any_pokemon(pl) THEN {}
       ELSE {Act("ATTACH_ENERGY", p, pl.hand[k].id, targets[j].id, "") :
               k \in energy, j \in DOMAIN targets}

get_play_basic_actions(s) ==
    LET p == s.active_player_index
        pl == s.players[p]
        basics == FirstOfFid(pl.hand,
                    {k \in DOMAIN pl.hand : is_basic_pokemon(Def(pl.hand[k]))})
    IN IF ~can_add_to_bench(pl) THEN {}
       ELSE {Act("PLAY_BASIC", p, pl.hand[k].id, "", "") : k \in basics}

can_evolve(s, base, evolution) ==
    /\ evolution.evolves_from # ""
    /\ Def(base).name = evolution.evolves_from
    /\ base.turns_in_play >= 1
    /\ ~base.evolved_this_turn

\* one action per evolution card in hand (first of each functional id) and
\* Pokemon in play it can evolve; none on turn 1
get_evolution_actions(s) ==
    LET p == s.active_player_index
        pl == s.players[p]
        targets == get_all_pokemon(pl)
        cards(j) == FirstOfFid(pl.hand,
                      {k \in DOMAIN pl.hand : can_evolve(s, targets[j], Def(pl.hand[k]))})
    IN IF s.turn_count = 1 THEN {}
       ELSE {Act("EVOLVE", p, pl.hand[c[2]].id, targets[c[1]].id, "") :
               c \in {d \in (DOMAIN targets) \X (DOMAIN pl.hand) : d[2] \in cards(d[1])}}

\* faulty variant: the stadium in play is compared by card id, not by name
get_trainer_actions_same_id(s) ==
    LET p == s.active_player_index
        pl == s.players[p]
        items_locked == check_global_block(s, "global_play_item")
        items == FirstOfFid(pl.hand,
                   {k \in DOMAIN pl.hand :
                      /\ is_trainer(Def(pl.hand[k]))
                      /\ is_item(Def(pl.hand[k]))
                      /\ ~items_locked})
        supporters == FirstOfFid(pl.hand,
                   {k \in DOMAIN pl.hand :
                      /\ is_trainer(Def(pl.hand[k]))
                      /\ ~is_item(Def(pl.hand[k]))
                      /\ is_supporter(Def(pl.hand[k]))
                      /\ ~pl.supporter_played_this_turn
                      /\ ~(s.turn_count = 1 /\ s.active_player_index = s.starting_player_id)})
        stadiums == FirstOfFid(pl.hand,
                   {k \in DOMAIN pl.hand :
                      /\ is_trainer(Def(pl.hand[k]))
                      /\ ~is_item(Def(pl.hand[k]))
                      /\ ~is_supporter(Def(pl.hand[k]))
                      /\ is_stadium(Def(pl.hand[k]))
                      /\ ~pl.stadium_played_this_turn
                      /\ ~(Len(s.stadium) > 0
                           /\ s.stadium[1].card_id = pl.hand[k].card_id)})
        tools == {k \in DOMAIN pl.hand :
                      /\ is_trainer(Def(pl.hand[k]))
                      /\ ~is_item(Def(pl.hand[k]))
                      /\ ~is_supporter(Def(pl.hand[k]))
                      /\ ~is_stadium(Def(pl.hand[k]))
                      /\ is_tool(Def(pl.hand[k]))}
        bare == {j \in DOMAIN get_all_pokemon(pl) :
                   Len(get_all_pokemon(pl)[j].attached_tools) = 0}
    IN {Act("PLAY_ITEM", p, pl.hand[k].id, "", "") : k \in items}
       \cup {Act("PLAY_SUPPORTER", p, pl.hand[k].id, "", "") : k \in supporters}
       \cup {Act("PLAY_STADIUM", p, pl.hand[k].id, "", "") : k \in stadiums}
       \cup {Act("ATTACH_TOOL", p, pl.hand[k].id, get_all_pokemon(pl)[j].id, "") :
               k \in tools, j \in bare}

\* items, supporters, stadiums and tools
get_trainer_actions(s) ==
    LET p == s.active_player_index
        pl == s.players[p]
        items_locked == check_global_block(s, "global_play_item")
        items == FirstOfFid(pl.hand,
                   {k \in DOMAIN pl.hand :
                      /\ is_trainer(Def(pl.hand[k]))
                      /\ is_item(Def(pl.hand[k]))
                      /\ ~items_locked})
        supporters == FirstOfFid(pl.hand,
                   {k \in DOMAIN pl.hand :
                      /\ is_trainer(Def(pl.hand[k]))
                      /\ ~is_item(Def(pl.hand[k]))
                      /\ is_supporter(Def(pl.hand[k]))
                      /\ ~pl.supporter_played_this_turn
                      /\ ~(s.turn_count = 1 /\ s.active_player_index = s.starting_player_id)})
        stadiums == FirstOfFid(pl.hand,
                   {k \in DOMAIN pl.hand :
                      /\ is_trainer(Def(pl.hand[k]))
                      /\ ~is_item(Def(pl.hand[k]))
                      /\ ~is_supporter(Def(pl.hand[k]))
                      /\ is_stadium(Def(pl.hand[k]))
                      /\ ~pl.stadium_played_this_turn
                      /\ ~(Len(s.stadium) > 0
                           /\ Def(s.stadium[1]).name = Def(pl.hand[k]).name)})
        tools == {k \in DOMAIN pl.hand :
                      /\ is_trainer(Def(pl.hand[k]))
                      /\ ~is_item(Def(pl.hand[k]))
                      /\ ~is_supporter(Def(pl.hand[k]))
                      /\ ~is_stadium(Def(pl.hand[k]))
                      /\ is_tool(Def(pl.hand[k]))}
        bare == {j \in DOMAIN get_all_pokemon(pl) :
                   Len(get_all_pokemon(pl)[j].attached_tools) = 0}
    IN {Act("PLAY_ITEM", p, pl.hand[k].id, "", "") : k \in items}
       \cup {Act("PLAY_SUPPORTER", p, pl.hand[k].id, "", "") : k \in supporters}
       \cup {Act("PLAY_STADIUM", p, pl.hand[k].id, "", "") : k \in stadiums}
       \cup {Act("ATTACH_TOOL", p, pl.hand[k].id, get_all_pokemon(pl)[j].id, "") :
               k \in tools, j \in bare}

\* faulty variant: a Pokemon under a Special Condition may still retreat
get_retreat_actions_any_status(s) ==
    LET p == s.active_player_index
        pl == s.players[p]
    IN IF pl.retreated_this_turn THEN {}
       ELSE IF ~has_active(pl) \/ get_bench_count(pl) = 0 THEN {}
       ELSE IF total_attached_energy(pl.active[1]) < calculate_retreat_cost(s, pl.active[1])
            THEN {}
       ELSE {Act("RETREAT", p, pl.active[1].id, pl.bench[k].id, "") : k \in DOMAIN pl.bench}

get_retreat_actions(s) ==
    LET p == s.active_player_index
        pl == s.players[p]
    IN IF pl.retreated_this_turn THEN {}
       ELSE IF ~has_active(pl) \/ get_bench_count(pl) = 0 THEN {}
       ELSE IF is_asleep_or_paralyzed(pl.active[1]) THEN {}
       ELSE IF total_attached_energy(pl.active[1]) < calculate_retreat_cost(s, pl.active[1])
            THEN {}
       ELSE {Act("RETREAT", p, pl.active[1].id, pl.bench[k].id, "") : k \in DOMAIN pl.bench}

\* faulty variant: the starting player may attack on turn 1
get_attack_actions_first_turn(s) ==
    LET p == s.active_player_index
        pl == s.players[p]
    IN IF ~has_active(pl) THEN {}
       ELSE LET attacks == Def(pl.active[1]).attacks
            IN {Act("ATTACK", p, pl.active[1].id, "", attacks[k].name) :
                  k \in {j \in DOMAIN attacks :
                           has_energy_for_attack(pl.active[1], attacks[j].cost)}}

get_attack_actions(s) ==
    LET p == s.active_player_index
        pl == s.players[p]
    IN IF ~has_active(pl) THEN {}
       ELSE IF is_asleep_or_paralyzed(pl.active[1]) THEN {}
       ELSE IF \E k \in DOMAIN pl.active[1].attack_effects :
                 pl.active[1].attack_effects[k] = "cannot_attack_next_turn" THEN {}
       ELSE IF s.turn_count = 1 /\ s.active_player_index = s.starting_player_id THEN {}
       ELSE LET attacks == Def(pl.active[1]).attacks
            IN {Act("ATTACK", p, pl.active[1].id, "", attacks[k].name) :
                  k \in {j \in DOMAIN attacks :
                           has_energy_for_attack(pl.active[1], attacks[j].cost)}}

\* faulty variant: passing the turn is not offered
get_main_phase_actions_no_pass(s) ==
    LET p == s.active_player_index
        pl == s.players[p]
    IN IF ~has_active(pl) /\ get_bench_count(pl) > 0
       THEN {Act("PROMOTE_ACTIVE", p, pl.bench[k].id, "", "") : k \in DOMAIN pl.bench}
       ELSE get_energy_attach_actions(s) \cup get_attack_actions(s)

get_main_phase_actions(s) ==
    LET p == s.active_player_index
        pl == s.players[p]
    IN IF ~has_active(pl) /\ get_bench_count(pl) > 0
       THEN {Act("PROMOTE_ACTIVE", p, pl.bench[k].id, "", "") : k \in DOMAIN pl.bench}
       ELSE {Act("END_TURN", p, "", "", "")}
            \cup get_energy_attach_actions(s)
            \cup get_play_basic_actions(s)
            \cup get_evolution_actions(s)
            \cup get_trainer_actions(s)
            \cup get_retreat_actions(s)
            \cup get_attack_actions(s)

\* the zone a SelectFromZone step reads (only hand, deck and discard are
\* resolved, any other zone gives no card to select)
StepZone(s, step) ==
    LET pl == s.players[step.player_id]
    IN CASE step.zone = "HAND" -> pl.hand
         [] step.zone = "DECK" -> pl.deck
         [] step.zone = "DISCARD" -> pl.discard
         [] OTHER -> <<>>

\* faulty variant: excluded and already selected cards stay selectable
get_resolution_stack_actions_unfiltered(s) ==
    IF Len(s.resolution_stack) = 0 THEN {}
    ELSE
      LET step == Top(s)
          zone == IF step.step_type = "SEARCH_DECK"
                  THEN s.players[step.player_id].deck
                  ELSE StepZone(s, step)
          ok == {k \in DOMAIN zone : card_matches_filter(zone[k], step.filter_criteria)}
      IN {Act("SELECT_CARD", step.player_id, zone[k].id, "", "") :
            k \in FirstOfFid(zone, ok)}
         \cup {Act("CONFIRM_SELECTION", step.player_id, "", "", "") :
                 x \in {j \in {1} : Len(step.selected_card_ids) >= step.min_count}}

get_resolution_stack_actions(s) ==
    IF Len(s.resolution_stack) = 0 THEN {}
    ELSE
      LET step == Top(s)
          pl == s.players[step.player_id]
          confirm == IF Len(step.selected_card_ids) >= step.min_count
                     THEN {Act("CONFIRM_SELECTION", step.player_id, "", "", "")}
                     ELSE {}
      IN CASE step.step_type = "SELECT_FROM_ZONE" ->
                LET zone == StepZone(s, step)
                    ok == {k \in DOMAIN zone :
                             /\ zone[k].id \notin Range(step.exclude_card_ids)
                             /\ zone[k].id \notin Range(step.selected_card_ids)
                             /\ card_matches_filter(zone[k], step.filter_criteria)}
                IN {Act("SELECT_CARD", step.player_id, zone[k].id, "", "") :
                      k \in FirstOfFid(zone, ok)} \cup confirm
           [] step.step_type = "SEARCH_DECK" ->
                LET ok == {k \in DOMAIN pl.deck :
                             /\ pl.deck[k].id \notin Range(step.selected_card_ids)
                             /\ card_matches_filter(pl.deck[k], step.filter_criteria)}
                IN {Act("SELECT_CARD", step.player_id, pl.deck[k].id, "", "") :
                      k \in {j \in FirstOfFid(pl.deck, ok) :
                               Len(step.selected_card_ids) < step.count}} \cup confirm
           [] OTHER -> {}

is_game_over(s) == s.result # "ONGOING"

\* the switch on the phase in get_legal_actions
get_phase_actions(s) ==
    CASE s.current_phase = "SETUP" -> get_setup_actions(s)
      [] s.current_phase = "MULLIGAN" -> get_mulligan_actions(s)
      [] s.current_phase = "MAIN" -> get_main_phase_actions(s)
      [] s.current_phase = "SUDDEN_DEATH" -> get_main_phase_actions(s)
      [] OTHER -> {}

\* faulty variant: the phase's actions are offered beside those of the stack
get_legal_actions_phase_too(s) ==
    IF is_game_over(s) THEN {}
    ELSE get_resolution_stack_actions(s) \cup get_phase_actions(s)

get_legal_actions(s) ==
    IF is_game_over(s) THEN {}
    ELSE IF Len(s.resolution_stack) # 0 THEN get_resolution_stack_actions(s)
    ELSE get_phase_actions(s)

\* ------------------------------------------------------------------------
\* Effect builders and trainer handlers
\* ------------------------------------------------------------------------
Result(s, ok) == [st |-> s, success |-> ok]

\* effects::search_deck
search_deck(s, source_id, player_id, filter, count, min_count, destination, shuffle_after, on_complete) ==
    Result(push_step(s, SearchDeckStep(source_id, player_id, count, min_count,
                                       destination, filter, shuffle_after,
                                       on_complete)),
           TRUE)

\* effects::search_deck_to_bench
search_deck_to_bench(s, source_id, player_id, filter, count, min_count, on_complete) ==
    search_deck(s, source_id, player_id, filter, count, min_count, "BENCH", TRUE,
                on_complete)

\* effects::can_discard_from_hand: only the size of the hand is looked at
can_discard_from_hand(s, player_id, count, filter) ==
    Len(s.players[player_id].hand) >= count

\* effects::discard_then: the step's callback discards the selection and then
\* runs then_effect
discard_then(s, source_id, player_id, discard_count, discard_filter, then_effect) ==
    IF ~can_discard_from_hand(s, player_id, discard_count, discard_filter)
    THEN Result(s, FALSE)
    ELSE Result(push_step(s, SelectFromZoneStep(source_id, player_id, "DISCARD_COST", "HAND",
                                                discard_count, discard_count, TRUE,
                                                discard_filter, <<source_id>>,
                                                then_effect)),
                TRUE)

\* effects::switch_active: a bench selection for the player and, with
\* opponent_also, one for an opponent who has a bench, pushed after it
effects_switch_active(s, source_id, player_id, opponent_also) ==
    LET BenchStep(p) == SelectFromZoneStep(source_id, p, "SWITCH_TARGET", "BENCH", 1, 1, TRUE, {}, <<>>,
                                           NoCallback)
        s1 == push_step(s, BenchStep(player_id))
    IN IF get_bench_count(s.players[player_id]) = 0 THEN Result(s, FALSE)
       ELSE IF opponent_also /\ get_bench_count(s.players[1 - player_id]) > 0
            THEN Result(push_step(s1, BenchStep(1 - player_id)), TRUE)
       ELSE Result(s1, TRUE)

\* nest_ball.cpp
can_play_nest_ball(s, player_id) == can_add_to_bench(s.players[player_id])

execute_nest_ball(s, card) ==
    LET player_id == s.active_player_index
    IN IF ~can_play_nest_ball(s, player_id) THEN Result(s, FALSE)
       ELSE search_deck_to_bench(s, card.id, player_id,
                                 {<<"supertype", "Pokemon">>, <<"subtype", "Basic">>},
                                 1, 0, NoCallback)

\* ultra_ball.cpp
can_play_ultra_ball(s, player_id) == Len(s.players[player_id].hand) >= ULTRA_BALL_MIN_HAND

execute_ultra_ball(s, card) ==
    LET player_id == s.active_player_index
    IN IF ~can_play_ultra_ball(s, player_id) THEN Result(s, FALSE)
       ELSE discard_then(s, card.id, player_id, ULTRA_BALL_DISCARD, {},
                         "discard_then:ultra_ball_search")

\* ActiveEffect::is_expired: never for a permanent effect; at the cleanup of
\* the named player's turn; otherwise once duration_turns turns have passed
is_expired(effect, current_turn, current_player, current_phase) ==
    IF effect.duration_turns = -1 THEN FALSE
    ELSE \/ (effect.expires_on_player = current_player /\ current_phase = "cleanup")
         \/ current_turn - effect.created_turn >= effect.duration_turns

\* briar.cpp
can_play_briar(s, player_id) == Len(s.players[1 - player_id].prizes) = BRIAR_OPPONENT_PRIZES

execute_briar(s, card) ==
    LET player_id == s.active_player_index
    IN IF ~can_play_briar(s, player_id) THEN Result(s, FALSE)
       ELSE Result([s EXCEPT !.active_effects =
                       Append(@, [name |-> "briar_extra_prize",
                                  source_card_id |-> card.id,
                                  target_player_id |-> player_id,
                                  duration_turns |-> 1,
                                  created_turn |-> s.turn_count,
                                  expires_on_player |-> player_id])],
                   TRUE)

\* iono.cpp: each hand is shuffled with the state's generator and inserted at
\* the front of its player's deck; then, when a card was moved, each player
\* takes one card per remaining prize from the back of its deck
IonoBottom(pl, r) ==
    [pl EXCEPT !.deck = ShuffleSeq(pl.hand, r) \o @, !.hand = <<>>]

IonoDraw(pl) ==
    LET n == IF Len(pl.prizes) < Len(pl.deck) THEN Len(pl.prizes) ELSE Len(pl.deck)
    IN [pl EXCEPT !.hand = @ \o [i \in 1..n |-> pl.deck[Len(pl.deck) + 1 - i]],
                  !.deck = SubSeq(@, 1, Len(@) - n)]

execute_iono(s, card) ==
    LET p == s.active_player_index
        o == 1 - p
        r1 == IF Len(s.players[p].hand) >= 2 THEN RngNext(s.rng) ELSE s.rng
        r2 == IF Len(s.players[o].hand) >= 2 THEN RngNext(r1) ELSE r1
        any_cards_moved == Len(s.players[p].hand) > 0 \/ Len(s.players[o].hand) > 0
        s1 == [s EXCEPT !.players[p] = IonoBottom(@, s.rng),
                        !.players[o] = IonoBottom(@, r1),
                        !.rng = r2]
    IN Result(IF any_cards_moved
              THEN [s1 EXCEPT !.players[p] = IonoDraw(@), !.players[o] = IonoDraw(@)]
              ELSE s1,
              TRUE)

\* dawn.cpp: three searches pushed for Stage 2, Stage 1 and Basic, in that
\* order; only the Stage 2 search shuffles
can_play_dawn(s, player_id) == TRUE

\* faulty variant: the searches are pushed in the order they are named
execute_dawn_forward(s, card) ==
    LET player_id == s.active_player_index
        Search(subtype, shuffle_after) ==
            SearchDeckStep(card.id, player_id, 1, 0, "HAND",
                           {<<"supertype", "Pokemon">>, <<"subtype", subtype>>},
                           shuffle_after, NoCallback)
    IN Result(push_step(push_step(push_step(s, Search("Basic", FALSE)),
                                  Search("Stage 1", FALSE)),
                        Search("Stage 2", TRUE)),
              TRUE)

execute_dawn(s, card) ==
    LET player_id == s.active_player_index
        Search(subtype, shuffle_after) ==
            SearchDeckStep(card.id, player_id, 1, 0, "HAND",
                           {<<"supertype", "Pokemon">>, <<"subtype", subtype>>},
                           shuffle_after, NoCallback)
    IN Result(push_step(push_step(push_step(s, Search("Stage 2", TRUE)),
                                  Search("Stage 1", FALSE)),
                        Search("Basic", FALSE)),
              TRUE)

\* rare_candy.cpp
find_stage1_names_for_basic(basic_name) ==
    {card_db_[d].name : d \in {x \in DOMAIN card_db_ :
                                 /\ "Stage 1" \in card_db_[x].subtypes
                                 /\ card_db_[x].evolves_from = basic_name}}

stage2_can_evolve_from_basic(stage2_def, basic_name) ==
    /\ "Stage 2" \in stage2_def.subtypes
    /\ stage2_def.evolves_from # ""
    /\ stage2_def.evolves_from \in find_stage1_names_for_basic(basic_name)

\* one pair per Basic Pokemon in play for a turn and Stage 2 card in hand (the
\* first of each functional id) that evolves from it through some Stage 1
get_valid_rare_candy_pairs(s, player_id) ==
    LET pl == s.players[player_id]
        all == get_all_pokemon(pl)
        basics == {j \in DOMAIN all :
                     all[j].turns_in_play > 0 /\ is_basic_pokemon(Def(all[j]))}
        stage2s(j) == FirstOfFid(pl.hand,
                        {k \in DOMAIN pl.hand :
                           stage2_can_evolve_from_basic(Def(pl.hand[k]), Def(all[j]).name)})
    IN IF s.turn_count = 1 THEN {}
       ELSE {<<all[c[1]].id, pl.hand[c[2]].id>> :
               c \in {d \in basics \X (DOMAIN pl.hand) : d[2] \in stage2s(d[1])}}

\* the generator registered for Rare Candy: one PlayItem per pair, the Basic as
\* target_id and the Stage 2 as parameters["stage2_id"]
rare_candy_generator(s, card) ==
    {Act("PLAY_ITEM", s.active_player_index, card.id, pair[1], "")
        @@ [stage2_id |-> pair[2]] :
       pair \in get_valid_rare_candy_pairs(s, s.active_player_index)}

\* the handler: the Basic in play takes the Stage 2's definition id and keeps
\* its own instance id; a copy of it becomes its previous stage; the Stage 2
\* card taken from the hand is put nowhere
execute_rare_candy(s, card, action) ==
    LET player_id == s.active_player_index
        pl == s.players[player_id]
        all == get_all_pokemon(pl)
        j == IndexOfId(all, action.target_id)
        got == take_card(pl.hand, IF "stage2_id" \in DOMAIN action
                                  THEN action.stage2_id ELSE "")
        Candied(basic) ==
            [basic EXCEPT !.previous_stages = Append(@, basic.id),
                          !.card_id = got.card.card_id,
                          !.status = {},
                          !.evolved_this_turn = TRUE,
                          !.turns_in_play = 0]
        pl1 == [pl EXCEPT !.hand = got.zone]
    IN IF action.target_id = "" \/ "stage2_id" \notin DOMAIN action THEN Result(s, FALSE)
       ELSE IF j = 0 \/ ~got.found THEN Result(s, FALSE)
       ELSE IF ~stage2_can_evolve_from_basic(Def(got.card), Def(all[j]).name)
            THEN Result([s EXCEPT !.players[player_id].hand =
                           add_card(got.zone, got.card)], FALSE)
       ELSE IF j <= Len(pl.active)
            THEN Result([s EXCEPT !.players[player_id] =
                           [pl1 EXCEPT !.active[1] = Candied(@)]], TRUE)
       ELSE Result([s EXCEPT !.players[player_id] =
                      [pl1 EXCEPT !.bench[j - Len(pl.active)] = Candied(@)]], TRUE)

\* effects::shuffle_discard_to_deck and effects::recover_from_discard: a
\* selection from the player's discard pile, marked with its purpose; no
\* completion callback is set
shuffle_discard_to_deck(s, source_card, player_id, filter, count, min_count) ==
    Result(push_step(s, SelectFromZoneStep(source_card.id, player_id, "RECOVER_TO_DECK",
                                           "DISCARD", count, min_count, FALSE,
                                           filter, <<>>, NoCallback)),
           TRUE)

recover_from_discard(s, source_card, player_id, filter, count, min_count) ==
    Result(push_step(s, SelectFromZoneStep(source_card.id, player_id, "RECOVER_TO_HAND",
                                           "DISCARD", count, min_count, FALSE,
                                           filter, <<>>, NoCallback)),
           TRUE)

\* super_rod.cpp and night_stretcher.cpp: both take Pokemon and basic Energy
super_rod_filter == {<<"super_rod_target", "true">>}

pokemon_or_basic_energy == {<<"super_rod_target", "true">>}

can_play_night_stretcher(s, player_id) ==
    \E k \in DOMAIN s.players[player_id].discard :
       \/ is_pokemon(Def(s.players[player_id].discard[k]))
       \/ /\ is_energy(Def(s.players[player_id].discard[k]))
          /\ Def(s.players[player_id].discard[k]).is_basic_energy

execute_super_rod(s, card) ==
    shuffle_discard_to_deck(s, card, s.active_player_index, super_rod_filter, 3, 1)

execute_night_stretcher(s, card) ==
    IF ~can_play_night_stretcher(s, s.active_player_index) THEN Result(s, FALSE)
    ELSE recover_from_discard(s, card, s.active_player_index, pokemon_or_basic_energy, 1, 1)


\* boss_orders.cpp: the opponent's benched Pokemon are the targets; the
\* generator builds one PlaySupporter per target; the handler reads the target
\* out of the action of its context and swaps it with the opponent's active
get_opponent_bench_targets(s, player_id) ==
    {s.players[1 - player_id].bench[k].id : k \in DOMAIN s.players[1 - player_id].bench}

can_play_boss_orders(s, player_id) == get_opponent_bench_targets(s, player_id) # {}

boss_orders_generator(s, card) ==
    {Act("PLAY_SUPPORTER", s.active_player_index, card.id, t, "") :
       t \in get_opponent_bench_targets(s, s.active_player_index)}

execute_boss_orders(s, card, action) ==
    LET opponent_id == 1 - s.active_player_index
        opponent == s.players[opponent_id]
    IN IF action.target_id = "" THEN Result(s, FALSE)
       ELSE IF IndexOfId(opponent.bench, action.target_id) = 0 \/ ~has_active(opponent)
            THEN Result(s, FALSE)
       ELSE Result([s EXCEPT !.players[opponent_id] =
                       switch_active(@, action.target_id)], TRUE)


\* LogicRegistry::has_trainer / invoke_trainer: the handler registered for the
\* card's definition id, called with the state and the played card.  The call
\* carries no action: a handler that reads its context's action finds the
\* played card and no target in it.
has_trainer(card_id) == card_id \in {"sv1-181", "sv1-196", "sv7-132", "me2-87", "me1-114",
                                      "sv2-188", "sv6pt5-61", "sv2-185"}

invoke_trainer(card_id, s, card) ==
    CASE card_id = "sv1-181" -> execute_nest_ball(s, card)
      [] card_id = "sv1-196" -> execute_ultra_ball(s, card)
      [] card_id = "sv7-132" -> execute_briar(s, card)
      [] card_id = "me2-87" -> execute_dawn(s, card)
      [] card_id = "sv2-188" -> execute_super_rod(s, card)
      [] card_id = "sv6pt5-61" -> execute_night_stretcher(s, card)
      [] card_id = "sv2-185" -> execute_iono(s, card)
      [] card_id = "me1-114" ->
           execute_boss_orders(s, card, Act("PLAY_SUPPORTER", s.active_player_index,
                                            card.id, "", ""))
      [] OTHER -> Result(s, FALSE)

\* the completion callback of a step played out on a state: the one
\* discard_then builds moves the selection from hand to discard, then runs
\* Ultra Ball's follow-up search
RECURSIVE discard_selected(_, _, _)
discard_selected(pl, selected, k) ==
    IF k > Len(selected) THEN pl
    ELSE LET got == take_card(pl.hand, selected[k])
         IN discard_selected(
              IF got.found
              THEN [pl EXCEPT !.hand = got.zone, !.discard = add_card(@, got.card)]
              ELSE pl,
              selected, k + 1)

run_callback(cb, s, selected, player_id) ==
    IF cb = "discard_then:ultra_ball_search"
    THEN LET s1 == [s EXCEPT !.players[player_id] =
                       discard_selected(@, selected, 1)]
         IN search_deck(s1, "ultra_ball_search", s1.active_player_index,
                        {<<"supertype", "Pokemon">>}, 1, 0, "HAND", TRUE,
                        NoCallback).st
    ELSE s

\* invoke_completion_callback (resolution_step.hpp): runs the step's callback
\* with the selected ids and the step's player, and notes the call
invoke_completion_callback(step, e) ==
    IF has_completion_callback(step)
    THEN [e EXCEPT !.st = run_callback(step.on_complete, e.st,
                                       get_selected_cards(step), step.player_id),
                   !.invoked = Append(@, [callback |-> step.on_complete,
                                          selected |-> get_selected_cards(step),
                                          player_id |-> step.player_id])]
    ELSE e

\* ------------------------------------------------------------------------
\* Action application
\* ------------------------------------------------------------------------
SetHp(card) == [card EXCEPT !.current_hp = Def(card).hp]

apply_place_active(s, a) ==
    LET pl == s.players[a.player_id]
        got == take_card(pl.hand, a.card_id)
    IN IF ~got.found THEN s
       ELSE [s EXCEPT !.players[a.player_id] =
               [pl EXCEPT !.hand = got.zone, !.active = <<SetHp(got.card)>>]]

apply_place_bench(s, a) ==
    LET pl == s.players[a.player_id]
        got == take_card(pl.hand, a.card_id)
    IN IF ~got.found THEN s
       ELSE [s EXCEPT !.players[a.player_id] =
               add_to_bench([pl EXCEPT !.hand = got.zone], SetHp(got.card))]

\* no card of CardDb has an on_play hook
apply_play_basic(s, a) ==
    LET pl == s.players[a.player_id]
        got == take_card(pl.hand, a.card_id)
    IN IF ~got.found THEN s
       ELSE [s EXCEPT !.players[a.player_id] =
               add_to_bench([pl EXCEPT !.hand = got.zone], SetHp(got.card))]

\* faulty variant: the evolved Pokemon keeps the status and attack effects
\* of its previous stage
apply_evolve_keep_status(s, a) ==
    LET pl == s.players[a.player_id]
        got == take_card(pl.hand, a.card_id)
        pl1 == [pl EXCEPT !.hand = got.zone]
        Evolved(old) ==
            [got.card EXCEPT !.current_hp = Def(got.card).hp,
                             !.damage_counters = old.damage_counters,
                             !.attached_energy = old.attached_energy,
                             !.attached_tools = old.attached_tools,
                             !.turns_in_play = old.turns_in_play,
                             !.evolved_this_turn = TRUE,
                             !.previous_stages = @ \o old.previous_stages \o <<old.id>>,
                             !.status = old.status,
                             !.attack_effects = old.attack_effects]
        onActive == has_active(pl) /\ pl.active[1].id = a.target_id
        k == IndexOfId(pl.bench, a.target_id)
    IN IF ~got.found THEN s
       ELSE IF onActive
            THEN [s EXCEPT !.players[a.player_id] =
                    [pl1 EXCEPT !.active[1] = Evolved(@)]]
       ELSE IF k # 0
            THEN [s EXCEPT !.players[a.player_id] =
                    [pl1 EXCEPT !.bench[k] = Evolved(@)]]
       ELSE [s EXCEPT !.players[a.player_id] = pl1]

\* the evolution card takes the place of its target and keeps the target's
\* damage, attached cards and turns in play; the target becomes its previous
\* stage.  No modelled card has an on_evolve hook.
apply_evolve(s, a) ==
    LET pl == s.players[a.player_id]
        got == take_card(pl.hand, a.card_id)
        pl1 == [pl EXCEPT !.hand = got.zone]
        Evolved(old) ==
            [got.card EXCEPT !.current_hp = Def(got.card).hp,
                             !.damage_counters = old.damage_counters,
                             !.attached_energy = old.attached_energy,
                             !.attached_tools = old.attached_tools,
                             !.turns_in_play = old.turns_in_play,
                             !.evolved_this_turn = TRUE,
                             !.previous_stages = @ \o old.previous_stages \o <<old.id>>,
                             !.status = {},
                             !.attack_effects = <<>>]
        onActive == has_active(pl) /\ pl.active[1].id = a.target_id
        k == IndexOfId(pl.bench, a.target_id)
    IN IF ~got.found THEN s
       ELSE IF onActive
            THEN [s EXCEPT !.players[a.player_id] =
                    [pl1 EXCEPT !.active[1] = Evolved(@)]]
       ELSE IF k # 0
            THEN [s EXCEPT !.players[a.player_id] =
                    [pl1 EXCEPT !.bench[k] = Evolved(@)]]
       ELSE [s EXCEPT !.players[a.player_id] = pl1]

\* the direct attachment (the legal actions carry card and target)
apply_attach_energy(s, a) ==
    LET pl == s.players[a.player_id]
        got == take_card(pl.hand, a.card_id)
        pl1 == [pl EXCEPT !.hand = got.zone]
        Attach(c) == IF c.id = a.target_id
                     THEN [c EXCEPT !.attached_energy = Append(@, got.card.id)]
                     ELSE c
        onActive == has_active(pl) /\ pl.active[1].id = a.target_id
        k == IndexOfId(pl.bench, a.target_id)
    IN IF a.card_id = "" \/ a.target_id = "" THEN s
       ELSE IF ~got.found THEN s
       ELSE IF ~onActive /\ k = 0
            THEN [s EXCEPT !.players[a.player_id] = pl1]
       ELSE [s EXCEPT !.players[a.player_id] =
               [pl1 EXCEPT !.active = IF onActive THEN <<Attach(pl.active[1])>> ELSE @,
                           !.bench = IF onActive THEN @
                                     ELSE [@ EXCEPT ![k] = Attach(pl.bench[k])],
                           !.energy_attached_this_turn = TRUE]]

\* the card leaves the hand, the handler runs, the card goes to the discard
\* pile; the handler's success is not looked at
apply_play_item(s, a) ==
    LET got == take_card(s.players[a.player_id].hand, a.card_id)
        s1 == [s EXCEPT !.players[a.player_id].hand = got.zone]
        s2 == IF has_trainer(got.card.card_id)
              THEN invoke_trainer(got.card.card_id, s1, got.card).st
              ELSE s1
    IN IF ~got.found THEN s
       ELSE [s2 EXCEPT !.players[a.player_id].discard = add_card(@, got.card)]

apply_play_supporter(s, a) ==
    LET got == take_card(s.players[a.player_id].hand, a.card_id)
        s1 == [s EXCEPT !.players[a.player_id].hand = got.zone,
                        !.players[a.player_id].supporter_played_this_turn = TRUE]
        s2 == IF has_trainer(got.card.card_id)
              THEN invoke_trainer(got.card.card_id, s1, got.card).st
              ELSE s1
    IN IF ~got.found THEN s
       ELSE [s2 EXCEPT !.players[a.player_id].discard = add_card(@, got.card)]

\* faulty variant: the stadium flag is not set
apply_play_stadium_unflagged(s, a) ==
    LET got == take_card(s.players[a.player_id].hand, a.card_id)
    IN IF ~got.found THEN s
       ELSE [s EXCEPT !.players[a.player_id].hand = got.zone,
                      !.stadium = <<got.card>>]

\* a stadium in play goes to its owner's discard pile when another is played
apply_play_stadium(s, a) ==
    LET got == take_card(s.players[a.player_id].hand, a.card_id)
        s1 == [s EXCEPT !.players[a.player_id].hand = got.zone]
        s2 == IF Len(s1.stadium) > 0
              THEN [s1 EXCEPT !.players[owner_id(s1.stadium[1].id)].discard =
                                 add_card(@, s1.stadium[1])]
              ELSE s1
    IN IF ~got.found THEN s
       ELSE [s2 EXCEPT !.stadium = <<got.card>>,
                       !.players[a.player_id].stadium_played_this_turn = TRUE]

\* the tool leaves the hand before the target is looked up
apply_attach_tool(s, a) ==
    LET pl == s.players[a.player_id]
        got == take_card(pl.hand, a.card_id)
        pl1 == [pl EXCEPT !.hand = got.zone]
        onActive == has_active(pl) /\ pl.active[1].id = a.target_id
        k == IndexOfId(pl.bench, a.target_id)
    IN IF ~got.found THEN s
       ELSE IF onActive
            THEN [s EXCEPT !.players[a.player_id] =
                    [pl1 EXCEPT !.active[1].attached_tools = Append(@, got.card.id)]]
       ELSE IF k # 0
            THEN [s EXCEPT !.players[a.player_id] =
                    [pl1 EXCEPT !.bench[k].attached_tools = Append(@, got.card.id)]]
       ELSE [s EXCEPT !.players[a.player_id] = pl1]

\* the retreat cost is paid from the back of the attached energy
RECURSIVE pay_retreat(_, _)
pay_retreat(pl, n) ==
    IF n = 0 \/ Len(pl.active[1].attached_energy) = 0 THEN pl
    ELSE LET en == pl.active[1].attached_energy
         IN pay_retreat(
              [pl EXCEPT !.active[1].attached_energy = SubSeq(en, 1, Len(en) - 1),
                         !.discard = add_card(@, MkCard(en[Len(en)]))],
              n - 1)

apply_retreat(s, a) ==
    LET pl == s.players[a.player_id]
    IN IF ~has_active(pl) THEN s
       ELSE [s EXCEPT !.players[a.player_id] =
               [switch_active(pay_retreat(pl, calculate_retreat_cost(s, pl.active[1])),
                              a.target_id)
                  EXCEPT !.retreated_this_turn = TRUE]]

\* faulty variant: prize cards are taken without being counted
RECURSIVE take_prizes_uncounted(_, _)
take_prizes_uncounted(pl, n) ==
    IF n = 0 \/ Len(pl.prizes) = 0 THEN pl
    ELSE take_prizes_uncounted(
           [pl EXCEPT !.prizes = SubSeq(@, 1, Len(@) - 1),
                      !.hand = add_card(@, pl.prizes[Len(pl.prizes)])],
           n - 1)

\* the attacker takes prize cards from the back of the prize pile, one
\* prizes_taken per card
RECURSIVE take_prizes(_, _)
take_prizes(pl, n) ==
    IF n = 0 \/ Len(pl.prizes) = 0 THEN pl
    ELSE take_prizes(
           [pl EXCEPT !.prizes = SubSeq(@, 1, Len(@) - 1),
                      !.hand = add_card(@, pl.prizes[Len(pl.prizes)]),
                      !.prizes_taken = @ + 1],
           n - 1)

\* faulty variant: the tools stay on the discarded Pokemon
knock_out_active_keep_tools(pl) ==
    LET d == pl.active[1]
    IN [pl EXCEPT !.discard = (@ \o Cards(d.attached_energy))
                              \o <<[d EXCEPT !.attached_energy = <<>>]>>,
                  !.active = <<>>]

\* the knocked out defender goes to its player's discard pile after its
\* energy and tools; the moved cards leave moved-from entries behind in the
\* defender's attachment lists
knock_out_active(pl) ==
    LET d == pl.active[1]
        husks(ids) == [k \in DOMAIN ids |-> MovedFromId]
    IN [pl EXCEPT !.discard = (@ \o Cards(d.attached_energy) \o Cards(d.attached_tools))
                              \o <<[d EXCEPT !.attached_energy = husks(@),
                                             !.attached_tools = husks(@)]>>,
                  !.active = <<>>]

apply_attack(s, a) ==
    LET me == a.player_id
        opp == 1 - s.active_player_index
        attacker == s.players[me].active[1]
        attacks == Def(attacker).attacks
        found == {k \in DOMAIN attacks : attacks[k].name = a.attack_name}
        attack == attacks[CHOOSE k \in found : \A j \in found : k <= j]
        s1 == IF attack.base_damage > 0
              THEN [s EXCEPT !.players[opp].active[1] =
                      apply_damage(@, calculate_damage(s, attacker, @, attack.base_damage))]
              ELSE s
        defender == s1.players[opp].active[1]
        s2 == IF is_knocked_out(defender, Def(defender).hp)
              THEN LET s3 == [s1 EXCEPT !.players[opp] = knock_out_active(@)]
                   IN [s3 EXCEPT !.players[me] =
                         take_prizes(@, get_prize_value(Def(defender)))]
              ELSE s1
    IN IF ~has_active(s.players[me]) \/ ~has_active(s.players[opp]) THEN s
       ELSE IF found = {} THEN s
       ELSE [s2 EXCEPT !.current_phase = "CLEANUP"]

apply_promote_active(s, a) ==
    [s EXCEPT !.players[a.player_id] = promote_to_active(@, a.card_id)]

\* out-of-range or missing choice_index falls back to index 0
apply_take_prize(s, a) ==
    LET pl == s.players[a.player_id]
    IN IF Len(pl.prizes) = 0 THEN s
       ELSE [s EXCEPT !.players[a.player_id] =
               [pl EXCEPT !.prizes = Tail(@),
                          !.hand = add_card(@, Head(pl.prizes)),
                          !.prizes_taken = @ + 1]]

\* ------------------------------------------------------------------------
\* Turn structure
\* ------------------------------------------------------------------------
start_turn(s) ==
    LET p == s.active_player_index
        pl == reset_turn_flags(s.players[p])
        pl1 == IF Len(pl.deck) > 0
               THEN [pl EXCEPT !.deck = draw_top(pl.deck).zone,
                               !.hand = add_card(@, draw_top(pl.deck).card)]
               ELSE pl
    IN [s EXCEPT !.players[p] = pl1, !.current_phase = "MAIN"]

\* faulty variant: the player to move changes but the turn is not counted
end_turn_uncounted(s) ==
    start_turn([s EXCEPT !.active_player_index = 1 - @])

end_turn(s) ==
    LET p == s.active_player_index
        pl == increment_turns_in_play(s.players[p])
        pl1 == IF has_active(pl)
               THEN [pl EXCEPT !.active[1].attack_effects = <<>>]
               ELSE pl
    IN start_turn([s EXCEPT !.players[p] = pl1,
                            !.active_player_index = 1 - p,
                            !.turn_count = @ + 1])

apply_end_turn(s, a) == end_turn(s)

advance_phase(s) ==
    CASE s.current_phase = "SETUP" ->
           IF s.active_player_index = 1
           THEN start_turn([s EXCEPT !.current_phase = "DRAW",
                                     !.active_player_index = s.starting_player_id])
           ELSE [s EXCEPT !.active_player_index = 1 - @]
      [] s.current_phase = "DRAW" -> [s EXCEPT !.current_phase = "MAIN"]
      [] s.current_phase = "ATTACK" -> [s EXCEPT !.current_phase = "CLEANUP"]
      [] s.current_phase = "CLEANUP" -> end_turn(s)
      [] OTHER -> s

Win(s, player_id) ==
    [s EXCEPT !.result = IF player_id = 0 THEN "PLAYER_0_WIN" ELSE "PLAYER_1_WIN",
              !.winner_id = player_id]

WinsNow(s, player_id) ==
    \/ ~has_any_pokemon(s.players[1 - player_id]) /\ s.current_phase # "SETUP"
    \/ Len(s.players[player_id].prizes) = 0 /\ s.players[player_id].prizes_taken > 0
    \/ Len(s.players[1 - player_id].deck) = 0 /\ s.current_phase = "DRAW"

check_win_conditions(s) ==
    IF is_game_over(s) THEN s
    ELSE IF WinsNow(s, 0) THEN Win(s, 0)
    ELSE IF WinsNow(s, 1) THEN Win(s, 1)
    ELSE s

\* ------------------------------------------------------------------------
\* Resolution stack
\* ------------------------------------------------------------------------
\* An execution e of the engine on a state: the state being worked on, the
\* engine's own generator rng_, and the completion callbacks invoked so far.

\* the selected cards of a completed SearchDeck step leave the deck for the
\* step's destination; a card bound for a full bench is not put anywhere
RECURSIVE move_selected(_, _, _, _)
move_selected(pl, selected, destination, k) ==
    IF k > Len(selected) THEN pl
    ELSE LET got == take_card(pl.deck, selected[k])
             pl1 == [pl EXCEPT !.deck = got.zone]
         IN move_selected(
              IF ~got.found THEN pl
              ELSE IF destination = "BENCH"
                   THEN (IF can_add_to_bench(pl1)
                         THEN add_to_bench(pl1, SetHp(got.card))
                         ELSE pl1)
                   ELSE [pl1 EXCEPT !.hand = add_card(@, got.card)],
              selected, destination, k + 1)

\* PokemonEngine::process_step_completion: a SelectFromZone step is popped;
\* a SearchDeck step is popped, its selection moved and the deck shuffled
\* with the engine's generator. (No step built by the handlers above carries
\* the attach-energy string tag.)
process_step_completion(e) ==
    IF Len(e.st.resolution_stack) = 0 THEN e
    ELSE LET step == Top(e.st)
             s1 == pop_step(e.st)
         IN IF step.step_type = "SEARCH_DECK"
            THEN LET pl == move_selected(s1.players[step.player_id],
                                         step.selected_card_ids, step.destination, 1)
                 IN IF step.shuffle_after
                    THEN [e EXCEPT !.st = [s1 EXCEPT !.players[step.player_id] =
                                             [pl EXCEPT !.deck = ShuffleSeq(@, e.rng_)]],
                                   !.rng_ = IF Len(pl.deck) > 1 THEN RngNext(@) ELSE @]
                    ELSE [e EXCEPT !.st = [s1 EXCEPT !.players[step.player_id] = pl]]
            ELSE [e EXCEPT !.st = s1]

\* faulty variant: the selection is recorded and the step waits for a confirm
apply_select_card_no_auto(e, a) ==
    IF Len(e.st.resolution_stack) = 0 THEN e
    ELSE [e EXCEPT !.st.resolution_stack[Len(e.st.resolution_stack)].selected_card_ids =
                      Append(@, a.card_id)]

apply_select_card(e, a) ==
    IF Len(e.st.resolution_stack) = 0 THEN e
    ELSE LET n == Len(e.st.resolution_stack)
             step == [Top(e.st) EXCEPT !.selected_card_ids = Append(@, a.card_id)]
             auto == /\ Len(step.selected_card_ids) = step.count
                     /\ (step.step_type = "SELECT_FROM_ZONE" => step.exact_count)
             e1 == [e EXCEPT !.st.resolution_stack[n] =
                       [step EXCEPT !.is_complete = auto]]
         IN IF auto THEN process_step_completion(e1) ELSE e1

apply_confirm_selection(e, a) ==
    IF Len(e.st.resolution_stack) = 0 THEN e
    ELSE process_step_completion(
           [e EXCEPT !.st.resolution_stack[Len(e.st.resolution_stack)].is_complete = TRUE])

\* ------------------------------------------------------------------------
\* step
\* ------------------------------------------------------------------------
apply_action(e, a) ==
    CASE a.action_type = "PLACE_ACTIVE" -> [e EXCEPT !.st = apply_place_active(@, a)]
      [] a.action_type = "PLACE_BENCH" -> [e EXCEPT !.st = apply_place_bench(@, a)]
      [] a.action_type = "PLAY_BASIC" -> [e EXCEPT !.st = apply_play_basic(@, a)]
      [] a.action_type = "EVOLVE" -> [e EXCEPT !.st = apply_evolve(@, a)]
      [] a.action_type = "ATTACH_ENERGY" -> [e EXCEPT !.st = apply_attach_energy(@, a)]
      [] a.action_type = "PLAY_ITEM" -> [e EXCEPT !.st = apply_play_item(@, a)]
      [] a.action_type = "PLAY_SUPPORTER" -> [e EXCEPT !.st = apply_play_supporter(@, a)]
      [] a.action_type = "PLAY_STADIUM" -> [e EXCEPT !.st = apply_play_stadium(@, a)]
      [] a.action_type = "ATTACH_TOOL" -> [e EXCEPT !.st = apply_attach_tool(@, a)]
      [] a.action_type = "RETREAT" -> [e EXCEPT !.st = apply_retreat(@, a)]
      [] a.action_type = "ATTACK" -> [e EXCEPT !.st = apply_attack(@, a)]
      [] a.action_type = "END_TURN" -> [e EXCEPT !.st = apply_end_turn(@, a)]
      [] a.action_type = "TAKE_PRIZE" -> [e EXCEPT !.st = apply_take_prize(@, a)]
      [] a.action_type = "PROMOTE_ACTIVE" -> [e EXCEPT !.st = apply_promote_active(@, a)]
      [] a.action_type = "SELECT_CARD" -> apply_select_card(e, a)
      [] a.action_type = "CONFIRM_SELECTION" -> apply_confirm_selection(e, a)
      [] OTHER -> e

\* the automatic phase change that ends step_inplace
auto_advance(s) ==
    IF s.current_phase = "CLEANUP" /\ Len(s.resolution_stack) = 0
    THEN advance_phase(s)
    ELSE s

finish_step(e) == [e EXCEPT !.st = auto_advance(check_win_conditions(@))]

step_inplace(e, a) == finish_step(apply_action(e, a))

\* faulty variant: a copy whose resolution stack is the original's
clone_shallow(s) == [copy |-> s, shared |-> {"resolution_stack"}]

\* GameState::clone: every member is copied by value, so the copy shares
\* no field with the state it was made from
clone(s) == [copy |-> s, shared |-> {}]

\* PokemonEngine::step with the engine's generator at r: the successor, the
\* generator afterwards, the callbacks invoked, and what the caller's input
\* state holds once step has returned
step_result(s, shared, e) ==
    [st |-> e.st, rng_ |-> e.rng_, invoked |-> e.invoked,
     input |-> [f \in DOMAIN s |-> IF f \in shared THEN e.st[f] ELSE s[f]]]

step_on(s, c, a, r) ==
    step_result(s, c.shared,
                step_inplace([st |-> c.copy, rng_ |-> r, invoked |-> <<>>], a))

step(s, a, r) == step_on(s, clone(s), a, r)

\* ------------------------------------------------------------------------
\* The game played: the board the console's setup hands to the engine
\* ------------------------------------------------------------------------
\* Both players have placed their Basics and laid out six prizes, the phase
\* is MAIN at turn 1 and player 0, who goes first, has drawn a card. The
\* engine's generator is seeded from the clock.
InitState ==
    [MkState(
       MkPlayer(Cards(<<"d0", "d1", "d2">>), Cards(<<"s0", "e0", "g0">>),
                Cards(<<"p01", "p02", "p03", "p04", "p05", "p06">>),
                Cards(<<"a0">>), Cards(<<"b0">>)),
       MkPlayer(Cards(<<"c0", "c1", "c2">>), Cards(<<"u1", "n1", "h1">>),
                Cards(<<"p11", "p12", "p13", "p14", "p15", "p16">>),
                Cards(<<"a1">>), <<>>))
     EXCEPT !.current_phase = "MAIN"]

Init ==
    /\ state = InitState
    /\ rng_ \in 0..(RngMod - 1)
    /\ card_db_ = CardDb
    /\ modifiers_ = {}

\* the caller picks a legal action and replaces its state by step's result
DoStep(a) ==
    \E r \in {step(state, a, rng_)} :
       /\ state' = r.st
       /\ rng_' = r.rng_
       /\ card_db_' = card_db_
       /\ modifiers_' = modifiers_

Legal(type) == {a \in get_legal_actions(state) : a.action_type = type}

\* A game is followed for MaxTurn turns: no turn is passed after them, and the
\* turn an attack on the last of them begins is played without a further
\* attack.
EndTurn == state.turn_count < MaxTurn /\ \E a \in Legal("END_TURN") : DoStep(a)
Attack == state.turn_count <= MaxTurn /\ \E a \in Legal("ATTACK") : DoStep(a)
AttachEnergy == \E a \in Legal("ATTACH_ENERGY") : DoStep(a)
PlayBasic == \E a \in Legal("PLAY_BASIC") : DoStep(a)
Evolve == \E a \in Legal("EVOLVE") : DoStep(a)
PlayItem == \E a \in Legal("PLAY_ITEM") : DoStep(a)
PlaySupporter == \E a \in Legal("PLAY_SUPPORTER") : DoStep(a)
PlayStadium == \E a \in Legal("PLAY_STADIUM") : DoStep(a)
AttachTool == \E a \in Legal("ATTACH_TOOL") : DoStep(a)
Retreat == \E a \in Legal("RETREAT") : DoStep(a)
PromoteActive == \E a \in Legal("PROMOTE_ACTIVE") : DoStep(a)
SelectCard == \E a \in Legal("SELECT_CARD") : DoStep(a)
ConfirmSelection == \E a \in Legal("CONFIRM_SELECTION") : DoStep(a)

Next ==
    \/ EndTurn
    \/ Attack
    \/ AttachEnergy
    \/ PlayBasic
    \/ Evolve
    \/ PlayItem
    \/ PlaySupporter
    \/ Retreat
    \/ PromoteActive
    \/ SelectCard
    \/ ConfirmSelection

Spec == Init /\ [][Next]_vars

\* A second board: player 1 holds two Supporters, two Stadiums of different
\* names and two Energy cards (one drawn for turn 2), and its Pokemon retreat
\* for free; its deck holds a Basic, a Stage 1 and a Stage 2 Pokemon.
TrainerBoard ==
    [MkState(
       MkPlayer(Cards(<<"d0">>), <<>>,
                Cards(<<"p01", "p02", "p03", "p04", "p05", "p06">>),
                Cards(<<"a0">>), Cards(<<"b0">>)),
       MkPlayer(Cards(<<"c0", "c1", "g1", "k1", "c3", "c4">>),
                Cards(<<"w1", "s1", "t1", "v1", "f1">>),
                Cards(<<"p11", "p12", "p13", "p14", "p15", "p16">>),
                Cards(<<"z1">>), Cards(<<"y1">>)))
     EXCEPT !.current_phase = "MAIN"]

InitTrainers ==
    /\ state = TrainerBoard
    /\ rng_ \in 0..(RngMod - 1)
    /\ card_db_ = CardDb
    /\ modifiers_ = {}

NextTrainers ==
    \/ EndTurn
    \/ Attack
    \/ AttachEnergy
    \/ PlayBasic
    \/ PlaySupporter
    \/ PlayStadium
    \/ Retreat
    \/ PromoteActive
    \/ SelectCard
    \/ ConfirmSelection

SpecTrainers == InitTrainers /\ [][NextTrainers]_vars

\* Knockout boards.  Player 0's active Pokemon is one of six 30-HP Pokemon,
\* one per prize value rule, and player 0 holds an Energy and a Tool; player
\* 1's deck list was long enough for six prize cards, or so short that
\* set_prizes found only one or two cards (and left the deck empty).
Defenders == {"a0", "x0", "v0", "r0", "m0", "j0"}

PrizeDeals ==
    {<<Cards(<<"p11", "p12", "p13", "p14", "p15", "p16">>), Cards(<<"c0">>)>>,
     <<Cards(<<"p11", "p12">>), <<>>>>,
     <<Cards(<<"p11">>), <<>>>>}

KnockoutBoard(defender, deal) ==
    [MkState(
       MkPlayer(Cards(<<"d0">>), Cards(<<"e0", "q0">>),
                Cards(<<"p01", "p02", "p03", "p04", "p05", "p06">>),
                Cards(<<defender>>), Cards(<<"b0">>)),
       MkPlayer(deal[2], <<>>, deal[1], Cards(<<"z1">>), <<>>))
     EXCEPT !.current_phase = "MAIN"]

InitKnockout ==
    /\ \E defender \in Defenders : \E deal \in PrizeDeals :
          state = KnockoutBoard(defender, deal)
    /\ rng_ \in 0..(RngMod - 1)
    /\ card_db_ = CardDb
    /\ modifiers_ = {}

NextKnockout ==
    \/ EndTurn
    \/ Attack
    \/ AttachEnergy
    \/ AttachTool
    \/ Retreat
    \/ PromoteActive

SpecKnockout == InitKnockout /\ [][NextKnockout]_vars

\* Evolution boards, at the start of player 0's turn 3.  Its active Beta and
\* the Beta on its bench have been in play for a turn; the active one carries
\* an Energy, may have been hit, and may be under Special Conditions and an
\* attack effect left by the opponent's attack.  Player 0 holds two Gamma, a
\* Delta, a Rare Candy, a Tool and an Energy.
Conditions == {{}, {"POISONED"}, {"ASLEEP", "CONFUSED"}, {"PARALYZED"}}
AttackEffects == {<<>>, <<"no_retreat">>}
Hits == {0, 1, 2}

EvolveBoard(st, fx, dmg) ==
    [MkState(
       MkPlayer(Cards(<<"d0">>), Cards(<<"g0", "g2", "q0", "k0", "y0", "f0">>),
                Cards(<<"p01", "p02", "p03", "p04", "p05", "p06">>),
                <<[SetHp(MkCard("a0")) EXCEPT !.damage_counters = dmg,
                                              !.status = st,
                                              !.attack_effects = fx,
                                              !.attached_energy = <<"e0">>,
                                              !.turns_in_play = 1]>>,
                <<[SetHp(MkCard("d1")) EXCEPT !.turns_in_play = 1]>>),
       MkPlayer(Cards(<<"c0">>), <<>>,
                Cards(<<"p11", "p12", "p13", "p14", "p15", "p16">>),
                Cards(<<"z1">>), <<>>))
     EXCEPT !.current_phase = "MAIN", !.turn_count = 3]

InitEvolve ==
    /\ card_db_ = CardDb
    /\ modifiers_ = {}
    /\ rng_ \in 0..(RngMod - 1)
    /\ \E st \in Conditions : \E fx \in AttackEffects : \E dmg \in Hits :
          state = EvolveBoard(st, fx, dmg)

\* The registry entry of Rare Candy is invoked with an action its generator
\* built for a Rare Candy card in the hand of the player to move.
InvokeRareCandy ==
    /\ state.current_phase = "MAIN"
    /\ state.result = "ONGOING"
    /\ Len(state.resolution_stack) = 0
    /\ \E card \in Range(state.players[state.active_player_index].hand) :
          /\ card.card_id = "sv1-191"
          /\ \E action \in rare_candy_generator(state, card) :
                \E r \in {execute_rare_candy(state, card, action)} :
                   /\ state' = r.st
                   /\ rng_' = rng_
                   /\ card_db_' = card_db_
                   /\ modifiers_' = modifiers_

NextEvolve ==
    \/ Evolve
    \/ AttachEnergy
    \/ AttachTool
    \/ Retreat
    \/ InvokeRareCandy

SpecEvolve == InitEvolve /\ [][NextEvolve]_vars

\* A mid-game board for the targeted and recovery trainers: it is player 1's
\* turn 2, its bench is full, its hand holds Nest Ball, Boss's Orders, Super Rod
\* Night Stretcher and Briar, its discard pile three Pokemon and an Energy; the
\* opponent has two benched Pokemon and two prizes left.
SupportBoard ==
    [MkState(
       MkPlayer(Cards(<<"d0">>), <<>>,
                Cards(<<"p01", "p02">>),
                <<SetHp(MkCard("a0"))>>,
                <<SetHp(MkCard("b0")), SetHp(MkCard("d1"))>>),
       MkPlayer(Cards(<<"c0", "c3", "c4">>),
                Cards(<<"n1", "o1", "r1", "i1", "s1">>),
                Cards(<<"p11", "p12", "p13", "p14", "p15", "p16">>),
                <<SetHp(MkCard("z1"))>>,
                <<SetHp(MkCard("y1")), SetHp(MkCard("a1")), SetHp(MkCard("c1")),
                  SetHp(MkCard("c2")), SetHp(MkCard("h1"))>>))
     EXCEPT !.current_phase = "MAIN", !.turn_count = 2, !.active_player_index = 1,
            !.players[1].discard = Cards(<<"g1", "f1", "k1", "w2">>)]

InitSupport ==
    /\ card_db_ = CardDb
    /\ modifiers_ = {}
    /\ rng_ \in 0..(RngMod - 1)
    /\ state = SupportBoard

NextSupport ==
    \/ PlayItem
    \/ PlaySupporter
    \/ Attack
    \/ Retreat
    \/ SelectCard
    \/ ConfirmSelection

SpecSupport == InitSupport /\ [][NextSupport]_vars

\* Filters.  A card effect of the player to move calls effects::search_deck
\* with a filter of at most two criteria; the keys are keys the matchers know
\* and one key, rarity, that no matcher knows.  The deck searched holds Energy,
\* a Basic, a Stage 1 and a Stage 2 Pokemon.  One search is followed per game.
Criteria ==
    {<<"supertype", "Pokemon">>, <<"supertype", "Energy">>, <<"subtype", "Stage 1">>,
     <<"name", "Gamma">>, <<"evolves_from", "Beta">>, <<"is_basic", "true">>,
     <<"is_basic_energy", "true">>, <<"energy_type", "Fire">>, <<"rarity", "rare">>,
     <<"max_hp", 60>>, <<"super_rod_target", "true">>}

Filters ==
    {f \in SUBSET Criteria :
       /\ Cardinality(f) <= 2
       /\ \A x, y \in f : x[1] = y[1] => x = y}

RecognizedKeys ==
    {"supertype", "subtype", "pokemon_type", "energy_type", "max_hp", "name",
     "evolves_from", "is_basic", "is_basic_energy", "rare_candy_target",
     "super_rod_target", "night_stretcher_target"}

InitFilter ==
    /\ card_db_ = CardDb
    /\ modifiers_ = {}
    /\ rng_ \in 0..(RngMod - 1)
    /\ state = [TrainerBoard EXCEPT !.turn_count = 2, !.active_player_index = 1]

InvokeSearchDeck ==
    /\ state.current_phase = "MAIN"
    /\ state.result = "ONGOING"
    /\ Len(state.resolution_stack) = 0
    /\ ~state.players[state.active_player_index].has_searched_deck
    /\ \E filter \in Filters :
          \E r \in {search_deck(state,
                                state.players[state.active_player_index].active[1].id,
                                state.active_player_index, filter, 2, 0, "HAND",
                                FALSE, NoCallback)} :
             /\ state' = r.st
             /\ rng_' = rng_
             /\ card_db_' = card_db_
             /\ modifiers_' = modifiers_

NextFilter ==
    \/ InvokeSearchDeck
    \/ SelectCard
    \/ ConfirmSelection

SpecFilter == InitFilter /\ [][NextFilter]_vars

\* Modifiers.  Up to two modifiers are registered before the game, each for
\* a card definition and a context: for the attacker's definition (pk-Z), the
\* defender's (pk-B), one of benched Pokemon (pk-A) and one of a card that is
\* not in the game (pk-V).  A damage_dealt modifier adds 20, a damage_taken
\* modifier takes 30 off, a retreat_cost modifier adds 1.
ModifierDelta(context) ==
    CASE context = "damage_dealt" -> 20
      [] context = "damage_taken" -> -30
      [] context = "global_damage" -> 5
      [] OTHER -> 1

ModifierDefs ==
    {[card_id |-> c, ability_name |-> "Boost", context |-> x,
      delta |-> ModifierDelta(x)] :
       c \in {"pk-Z", "pk-B", "pk-A", "pk-V"},
       x \in {"damage_dealt", "damage_taken", "retreat_cost"}}

Registries == {ms \in SUBSET ModifierDefs : Cardinality(ms) <= 2}

InitModifiers ==
    /\ card_db_ = CardDb
    /\ modifiers_ \in Registries
    /\ rng_ \in 0..(RngMod - 1)
    /\ state = SupportBoard

NextModifiers ==
    \/ Attack
    \/ Retreat
    \/ PromoteActive

SpecModifiers == InitModifiers /\ [][NextModifiers]_vars

\* faulty variant: the damage counters may go below zero
HealCardUnclamped(c, target_id, amount) ==
    IF c.id = target_id
    THEN [c EXCEPT !.damage_counters = @ - (amount \div 10)]
    ELSE c

\* effects::heal_damage: the card with the target id, wherever GameState::
\* find_card finds it, loses amount / 10 damage counters, down to zero
HealCard(c, target_id, amount) ==
    IF c.id = target_id
    THEN [c EXCEPT !.damage_counters =
                      IF @ - (amount \div 10) < 0 THEN 0 ELSE @ - (amount \div 10)]
    ELSE c

AllCards(s) ==
    UNION {Range(s.players[p].active) \cup Range(s.players[p].bench)
           \cup Range(s.players[p].hand) \cup Range(s.players[p].deck)
           \cup Range(s.players[p].discard) \cup Range(s.players[p].prizes) :
           p \in Players} \cup Range(s.stadium)

heal_damage(s, target_id, amount) ==
    IF \A c \in AllCards(s) : c.id # target_id
    THEN [st |-> s, success |-> FALSE]
    ELSE [st |-> [s EXCEPT
                    !.players = [p \in Players |->
                       [s.players[p] EXCEPT
                          !.active = [k \in DOMAIN @ |-> HealCard(@[k], target_id, amount)],
                          !.bench = [k \in DOMAIN @ |-> HealCard(@[k], target_id, amount)],
                          !.hand = [k \in DOMAIN @ |-> HealCard(@[k], target_id, amount)],
                          !.deck = [k \in DOMAIN @ |-> HealCard(@[k], target_id, amount)],
                          !.discard = [k \in DOMAIN @ |-> HealCard(@[k], target_id, amount)],
                          !.prizes = [k \in DOMAIN @ |-> HealCard(@[k], target_id, amount)]]],
                    !.stadium = [k \in DOMAIN @ |-> HealCard(@[k], target_id, amount)]],
          success |-> TRUE]

\* the amounts a card effect heals, in HP, and the ids it names: Pokemon in
\* play and an id no card has
HealAmounts == {0, 10, 25, 200}
HealTargets == {"t0", "b0", "y1", "nobody"}

\* A card effect calls effects::heal_damage.
InvokeHealDamage ==
    \E target_id \in HealTargets : \E amount \in HealAmounts :
       \E r \in {heal_damage(state, target_id, amount)} :
          /\ r.st # state
          /\ state' = r.st
          /\ rng_' = rng_
          /\ card_db_' = card_db_
          /\ modifiers_' = modifiers_


\* Damage.  Player 1 attacks Theta (200 HP, weak to Fire, resists Water) on
\* turn 2 with a typeless, a Fire, a Water or a Fire and Water Pokemon; Theta
\* starts with no or one damage counter.  Up to two modifiers are registered,
\* for Theta, for Zeta (in play once or twice) or for a card that is not in
\* the game: damage_dealt adds 20, damage_taken takes 30 off, global_damage
\* adds 5.
Attackers == {"z1", "w2", "w3", "w4"}

DamageBoard(attacker, dmg) ==
    [MkState(
       MkPlayer(Cards(<<"d0">>), <<>>,
                Cards(<<"p01", "p02", "p03", "p04", "p05", "p06">>),
                <<[SetHp(MkCard("t0")) EXCEPT !.damage_counters = dmg]>>,
                <<SetHp(MkCard("b0"))>>),
       MkPlayer(Cards(<<"c0", "c3">>), <<>>,
                Cards(<<"p11", "p12", "p13", "p14", "p15", "p16">>),
                <<SetHp(MkCard(attacker))>>,
                <<SetHp(MkCard("y1"))>>))
     EXCEPT !.current_phase = "MAIN", !.turn_count = 2, !.active_player_index = 1]

DamageRegistries ==
    {ms \in SUBSET {[card_id |-> c, ability_name |-> "Boost", context |-> x,
                     delta |-> ModifierDelta(x)] :
                      c \in {"pk-T", "pk-Z", "pk-V"},
                      x \in {"damage_dealt", "damage_taken", "global_damage"}} :
       Cardinality(ms) <= 2}

InitDamage ==
    /\ card_db_ = CardDb
    /\ modifiers_ \in DamageRegistries
    /\ rng_ \in 0..(RngMod - 1)
    /\ \E attacker \in Attackers : \E dmg \in {0, 1} :
          state = DamageBoard(attacker, dmg)

NextDamage ==
    \/ Attack
    \/ Retreat
    \/ InvokeHealDamage

SpecDamage == InitDamage /\ [][NextDamage]_vars

\* Stadium boards, at the start of player 0's turn 1.  Player 0 holds one
\* printing of Area Zero Underdepths and a Basic Pokemon; player 1 holds
\* another printing of it, a Stadium of another name and two Basic Pokemon, has
\* four or five Pokemon on its bench and a Tera Pokemon, or none, in the
\* active spot.
StadiumBoard(active, n) ==
    [MkState(
       MkPlayer(Cards(<<"d0">>), Cards(<<"t2", "d1">>),
                Cards(<<"p01", "p02", "p03", "p04", "p05", "p06">>),
                <<SetHp(MkCard("a0"))>>, <<>>),
       MkPlayer(Cards(<<"c0", "c3">>), Cards(<<"t1", "v1", "c1", "h1">>),
                Cards(<<"p11", "p12", "p13", "p14", "p15", "p16">>),
                <<SetHp(MkCard(active))>>,
                [k \in 1..n |-> SetHp(MkCard(<<"y1", "a1", "c2", "w2", "w3">>[k]))]))
     EXCEPT !.current_phase = "MAIN"]

InitStadium ==
    /\ card_db_ = CardDb
    /\ modifiers_ = {}
    /\ rng_ \in 0..(RngMod - 1)
    /\ \E active \in {"x1", "z1"} : \E n \in {4, 5} : state = StadiumBoard(active, n)

NextStadium ==
    \/ EndTurn
    \/ PlayStadium
    \/ PlayBasic
    \/ AttachEnergy

SpecStadium == InitStadium /\ [][NextStadium]_vars

\* Iono boards, in player 1's turn 2.  Player 1 holds Iono and an Energy,
\* player 0 holds no, one or two cards; each player has two prizes left and a
\* deck longer than its hand and its prizes together.
IonoHands == {<<>>, <<"e0">>, <<"e0", "g0">>}

IonoBoard(hand) ==
    [MkState(
       MkPlayer(Cards(<<"d0", "d2", "f0", "k0", "s0">>), Cards(hand),
                Cards(<<"p01", "p02">>),
                <<SetHp(MkCard("b0"))>>, <<SetHp(MkCard("d1"))>>),
       MkPlayer(Cards(<<"c0", "c3", "c4", "g1", "k1">>), Cards(<<"l1", "f1">>),
                Cards(<<"p11", "p12">>),
                <<SetHp(MkCard("z1"))>>, <<SetHp(MkCard("y1"))>>))
     EXCEPT !.current_phase = "MAIN", !.turn_count = 2, !.active_player_index = 1]

InitIono ==
    /\ card_db_ = CardDb
    /\ modifiers_ = {}
    /\ rng_ \in 0..(RngMod - 1)
    /\ \E hand \in IonoHands : state = IonoBoard(hand)

NextIono ==
    \/ PlaySupporter
    \/ AttachEnergy
    \/ Retreat
    \/ Attack

SpecIono == InitIono /\ [][NextIono]_vars


\* A card effect of the player to move calls effects::switch_active while
\* nothing is being resolved; the card in play that the effect belongs to is
\* the source.  No card of src/ calls this builder, so the call stands for a
\* handler written with it.
InvokeSwitchActive ==
    /\ state.current_phase = "MAIN"
    /\ state.result = "ONGOING"
    /\ Len(state.resolution_stack) = 0
    /\ has_active(state.players[state.active_player_index])
    /\ \E opponent_also \in BOOLEAN :
          \E r \in {effects_switch_active(state,
                        state.players[state.active_player_index].active[1].id,
                        state.active_player_index, opponent_also)} :
             /\ state' = r.st
             /\ rng_' = rng_
             /\ card_db_' = card_db_
             /\ modifiers_' = modifiers_

NextSwitch ==
    \/ EndTurn
    \/ Attack
    \/ AttachEnergy
    \/ PlayBasic
    \/ Retreat
    \/ PromoteActive
    \/ InvokeSwitchActive

SpecSwitch == Init /\ [][NextSwitch]_vars

\* The same game from a board where player 0's short deck ran out with the
\* card drawn for turn 1: player 0 has no card to draw when turn 3 starts.
DeckOutState ==
    [InitState EXCEPT !.players[0].deck = <<>>,
                      !.players[0].hand = Cards(<<"s0", "e0", "g0", "d0">>)]

InitDeckOut ==
    /\ state = DeckOutState
    /\ rng_ \in 0..(RngMod - 1)
    /\ card_db_ = CardDb
    /\ modifiers_ = {}

SpecDeckOut == InitDeckOut /\ [][Next]_vars

\* ------------------------------------------------------------------------
\* The setup phase: a fresh GameState whose hands have been dealt
\* ------------------------------------------------------------------------
\* Player 0 holds four Basics and an energy, or a hand without a Basic;
\* player 1 holds two Basics. Nobody has placed a Pokemon, no prize is laid.
SetupHands == {<<"a0", "b0", "d1", "d2", "e0">>, <<"e0", "s0">>}

SetupState(hand0) ==
    MkState(MkPlayer(Cards(<<"d0">>), Cards(hand0), <<>>, <<>>, <<>>),
            MkPlayer(Cards(<<"c0">>), Cards(<<"a1", "h1">>), <<>>, <<>>, <<>>))

InitSetup ==
    /\ state \in {SetupState(h) : h \in SetupHands}
    /\ rng_ \in 0..(RngMod - 1)
    /\ card_db_ = CardDb
    /\ modifiers_ = {}

PlaceActive == \E a \in Legal("PLACE_ACTIVE") : DoStep(a)
PlaceBench == \E a \in Legal("PLACE_BENCH") : DoStep(a)
RevealHandMulligan == \E a \in Legal("REVEAL_HAND_MULLIGAN") : DoStep(a)
PassSetup == state.turn_count < MaxTurn /\ \E a \in Legal("END_TURN") : DoStep(a)

NextSetup ==
    \/ PlaceActive
    \/ PlaceBench
    \/ RevealHandMulligan
    \/ PassSetup

SpecSetup == InitSetup /\ [][NextSetup]_vars
\* Setup under weak fairness: a player who has a legal action that changes the
\* state is asked for an action again and again
SpecSetupFair == InitSetup /\ [][NextSetup]_vars /\ WF_vars(NextSetup)


\* ------------------------------------------------------------------------
\* Properties
\* ------------------------------------------------------------------------
\* step applied by the engine to the current state
StepOf(a) == step(state, a, rng_)

\* every card a state holds in a zone, an active spot, a bench or the stadium
\* slot, and the ids a card holds: its own, its attached energy and tools and
\* its previous stages
PlayerCards(pl) == pl.deck \o pl.hand \o pl.discard \o pl.prizes \o pl.active \o pl.bench
StateCards(s) == PlayerCards(s.players[0]) \o PlayerCards(s.players[1]) \o s.stadium
HeldIdSeq(c) == <<c.id>> \o c.attached_energy \o c.attached_tools \o c.previous_stages
HeldIds(s) == UNION {Range(HeldIdSeq(c)) : c \in Range(StateCards(s))}
IdCount(s, i) ==
    LET cs == StateCards(s)
    IN SeqSum([k \in DOMAIN cs |->
                 Cardinality({j \in DOMAIN HeldIdSeq(cs[k]) : HeldIdSeq(cs[k])[j] = i})],
              Len(cs))

\* C1: for every legal action of a reachable state, the successor holds
\* exactly the ids the state holds, each exactly once, counted over all zones,
\* active spots, benches, attached energy and tools, previous stages and the
\* stadium slot.
C1_CardConservation ==
    \A a \in get_legal_actions(state) :
       \E t \in {StepOf(a).st} :
          /\ HeldIds(t) = HeldIds(state)
          /\ \A i \in HeldIds(t) : IdCount(t, i) = 1

C3_EqualStatesEqualSuccessors ==
    \A a \in get_legal_actions(state) :
       \E first \in {StepOf(a)} : step(state, a, first.rng_).st = first.st

\* the cards the top step of a state offers for selection
TopStepCandidates(s) ==
    IF Top(s).step_type = "SEARCH_DECK"
    THEN Ids(s.players[Top(s).player_id].deck)
    ELSE Ids(StepZone(s, Top(s)))

\* C4: while the resolution stack is non-empty, every legal action is a
\* SelectCard of a candidate of the top step or a ConfirmSelection (offered
\* once the minimum is met), made by the step's player; no phase action is
\* legal.
C4_OnlyTopStepActions ==
    Len(state.resolution_stack) > 0 =>
       \A a \in get_legal_actions(state) :
          /\ a.player_id = Top(state).player_id
          /\ \/ /\ a.action_type = "SELECT_CARD"
                /\ a.card_id \in TopStepCandidates(state)
             \/ /\ a.action_type = "CONFIRM_SELECTION"
                /\ Len(Top(state).selected_card_ids) >= Top(state).min_count

\* a pending step in the main phase with both kinds of action on offer
C4_Witness ==
    /\ Len(state.resolution_stack) > 0
    /\ state.current_phase = "MAIN"
    /\ \E a \in get_legal_actions(state) : a.action_type = "SELECT_CARD"
    /\ \E a \in get_legal_actions(state) : a.action_type = "CONFIRM_SELECTION"

\* the action completes the top step, which carries a completion callback
Completes(s, a) ==
    /\ Len(s.resolution_stack) > 0
    /\ has_completion_callback(Top(s))
    /\ \/ a.action_type = "CONFIRM_SELECTION"
       \/ /\ a.action_type = "SELECT_CARD"
          /\ Len(Top(s).selected_card_ids) + 1 = Top(s).count
          /\ (Top(s).step_type = "SELECT_FROM_ZONE" => Top(s).exact_count)

\* C5: when a legal action completes a step that carries a completion
\* callback, the step is popped and the callback is invoked exactly once, with
\* the step's selected ids and its player.
C5_CallbackInvokedOnce ==
    \A a \in get_legal_actions(state) :
       Completes(state, a) =>
          \E r \in {StepOf(a)} :
             /\ \A k \in DOMAIN r.st.resolution_stack :
                   ~r.st.resolution_stack[k].is_complete
             /\ r.invoked =
                  <<[callback |-> Top(state).on_complete,
                     selected |-> IF a.action_type = "SELECT_CARD"
                                  THEN Append(Top(state).selected_card_ids, a.card_id)
                                  ELSE Top(state).selected_card_ids,
                     player_id |-> Top(state).player_id]>>

\* actions of the player to move that get_legal_actions does not offer
OtherActions(s) ==
    LET p == s.active_player_index
        pl == s.players[p]
    IN ({Act("END_TURN", p, "", "", "")}
        \cup {Act("PLAY_ITEM", p, pl.hand[k].id, "", "") : k \in DOMAIN pl.hand}
        \cup {Act("PLAY_SUPPORTER", p, pl.hand[k].id, "", "") : k \in DOMAIN pl.hand}
        \cup {Act("ATTACK", p, pl.active[k].id, "", n) :
                k \in DOMAIN pl.active, n \in {"Hit", "Jab"}})
       \ get_legal_actions(s)

\* C6: applying an action that is not legal in a reachable state leaves the
\* state unchanged.
C6_IllegalActionNoOp ==
    \A a \in OtherActions(state) : StepOf(a).st = state

\* the trainer handler invoked by the play reports success = false
handler_fails(s, a) ==
    \E got \in {take_card(s.players[a.player_id].hand, a.card_id)} :
       /\ got.found
       /\ has_trainer(got.card.card_id)
       /\ ~invoke_trainer(got.card.card_id,
                          [s EXCEPT !.players[a.player_id].hand = got.zone],
                          got.card).success

\* C7: a legal PlayItem or PlaySupporter whose handler reports failure leaves
\* the state as it was: card in hand, no flag set, no step pushed.
C7_FailedHandlerNoOp ==
    \A a \in get_legal_actions(state) :
       (a.action_type \in {"PLAY_ITEM", "PLAY_SUPPORTER"} /\ handler_fails(state, a))
          => StepOf(a).st = state

\* C8: while the result is Ongoing, each player's prize cards and prizes
\* taken add up to six.
C8_PrizeAccounting ==
    state.result = "ONGOING" =>
       \A p \in Players :
          Len(state.players[p].prizes) + state.players[p].prizes_taken = PRIZE_COUNT

\* the game goes on after a knock out paid with a prize card
C8_Witness ==
    /\ state.result = "ONGOING"
    /\ \E p \in Players : state.players[p].prizes_taken > 0

\* C9: after any legal action, no legal SelectCard names a card that the top
\* step excludes or has already selected.
C9_NoExcludedOrSelectedCard ==
    \A a \in get_legal_actions(state) :
       \E t \in {StepOf(a).st} :
          \A b \in get_legal_actions(t) :
             b.action_type = "SELECT_CARD" =>
                /\ b.card_id \notin Range(Top(t).exclude_card_ids)
                /\ b.card_id \notin Range(Top(t).selected_card_ids)

\* a legal action leaves a top step that excludes a card and has selected
\* one, with a further card to select
C9_Witness ==
    \E a \in get_legal_actions(state) :
       \E t \in {StepOf(a).st} :
          /\ Len(t.resolution_stack) > 0
          /\ Len(Top(t).exclude_card_ids) > 0
          /\ Len(Top(t).selected_card_ids) > 0
          /\ \E b \in get_legal_actions(t) : b.action_type = "SELECT_CARD"

\* C10: from Setup on, as long as a player has no active Pokemon the phase is
\* Setup and the result is Ongoing (Main is entered only once both players
\* have placed an active Pokemon and passed).
C10_SetupUntilBothPlaced ==
    (\E p \in Players : ~has_active(state.players[p])) =>
       /\ state.current_phase = "SETUP"
       /\ state.result = "ONGOING"

\* C11: a legal EndTurn or Attack in Main passes the turn exactly once: with
\* the resolution stack empty afterwards, the player to move has changed, the
\* turn count has grown by one and the phase is Main; and no legal action
\* changes the turn count without changing the player to move.
C11_TurnPassesOnce ==
    \A a \in get_legal_actions(state) :
       \E t \in {StepOf(a).st} :
          /\ (/\ state.current_phase = "MAIN"
              /\ a.action_type \in {"END_TURN", "ATTACK"}
              /\ Len(t.resolution_stack) = 0)
             => /\ t.active_player_index = 1 - state.active_player_index
                /\ t.turn_count = state.turn_count + 1
                /\ t.current_phase = "MAIN"
          /\ t.turn_count # state.turn_count
             => t.active_player_index # state.active_player_index

\* in Main both an EndTurn and an Attack are legal
C11_Witness ==
    /\ state.current_phase = "MAIN"
    /\ \E a \in get_legal_actions(state) : a.action_type = "END_TURN"
    /\ \E a \in get_legal_actions(state) : a.action_type = "ATTACK"

\* C12: when a turn starts for a player whose deck is empty, the game is over
\* with the other player as winner and the phase is not Main.
C12_DeckOutLosesAtTurnStart ==
    \A a \in get_legal_actions(state) :
       \E t \in {StepOf(a).st} :
          (/\ t.turn_count # state.turn_count
           /\ Len(state.players[t.active_player_index].deck) = 0)
          => /\ t.winner_id = 1 - t.active_player_index
             /\ t.current_phase # "MAIN"

\* Main phase, nothing to resolve, game not decided
MainToMove(s) ==
    /\ s.current_phase = "MAIN"
    /\ Len(s.resolution_stack) = 0
    /\ s.result = "ONGOING"

\* the player to move has lost the active Pokemon and has a bench to promote from
must_promote(s) ==
    /\ ~has_active(s.players[s.active_player_index])
    /\ get_bench_count(s.players[s.active_player_index]) > 0

EndTurnLegal(s) ==
    Act("END_TURN", s.active_player_index, "", "", "") \in get_legal_actions(s)

FirstTurn(s) ==
    /\ s.current_phase = "MAIN"
    /\ s.turn_count = 1
    /\ s.active_player_index = s.starting_player_id

\* C14: during the starting player's first turn no Attack, no PlaySupporter
\* and no Evolve is a legal action.
C14_FirstTurnRestrictions ==
    FirstTurn(state) =>
       \A a \in get_legal_actions(state) :
          a.action_type \notin {"ATTACK", "PLAY_SUPPORTER", "EVOLVE"}

\* on that turn the player holds a Supporter and an evolution of a Pokemon in
\* play, the active Pokemon can pay for an attack, and other actions are legal
C14_Witness ==
    /\ FirstTurn(state)
    /\ Len(state.resolution_stack) = 0
    /\ \E a \in get_legal_actions(state) : a.action_type = "ATTACH_ENERGY"
    /\ LET pl == state.players[state.active_player_index]
       IN /\ \E k \in DOMAIN pl.hand : is_supporter(Def(pl.hand[k]))
          /\ \E k \in DOMAIN pl.hand : \E j \in DOMAIN get_all_pokemon(pl) :
                Def(pl.hand[k]).evolves_from = Def(get_all_pokemon(pl)[j]).name
          /\ \E k \in DOMAIN Def(pl.active[1]).attacks :
                has_energy_for_attack(pl.active[1], Def(pl.active[1]).attacks[k].cost)

\* the action kinds a player may take once in a turn, each with its flag
OncePerTurnKinds == {"ATTACH_ENERGY", "PLAY_SUPPORTER", "PLAY_STADIUM", "RETREAT"}

turn_flag(pl, kind) ==
    CASE kind = "ATTACH_ENERGY" -> pl.energy_attached_this_turn
      [] kind = "PLAY_SUPPORTER" -> pl.supporter_played_this_turn
      [] kind = "PLAY_STADIUM" -> pl.stadium_played_this_turn
      [] kind = "RETREAT" -> pl.retreated_this_turn

\* C15: attaching energy, playing a Supporter, playing a Stadium and
\* retreating each happen at most once in a turn: the action marks the player,
\* the mark stays for as long as the turn lasts, and a marked player is offered
\* no action of that kind.
C15_OncePerTurn ==
    LET me == state.players[state.active_player_index]
    IN /\ \A a \in get_legal_actions(state) :
             a.action_type \in OncePerTurnKinds => ~turn_flag(me, a.action_type)
       /\ \A a \in get_legal_actions(state) :
             \E t \in {StepOf(a).st} :
                t.turn_count = state.turn_count =>
                   \A kind \in OncePerTurnKinds :
                      (a.action_type = kind \/ turn_flag(me, kind))
                      => turn_flag(t.players[state.active_player_index], kind)

\* a player who has done all four and could do each again but for the marks:
\* an Energy, a Supporter and a Stadium of another name in hand, a bench and a
\* paid-for retreat
C15_Witness ==
    LET me == state.players[state.active_player_index]
    IN /\ MainToMove(state)
       /\ \A kind \in OncePerTurnKinds : turn_flag(me, kind)
       /\ \E k \in DOMAIN me.hand : is_energy(Def(me.hand[k]))
       /\ \E k \in DOMAIN me.hand : is_supporter(Def(me.hand[k]))
       /\ \E k \in DOMAIN me.hand :
             /\ is_stadium(Def(me.hand[k]))
             /\ Len(state.stadium) > 0
             /\ Def(state.stadium[1]).name # Def(me.hand[k]).name
       /\ has_active(me) /\ get_bench_count(me) > 0
       /\ total_attached_energy(me.active[1]) >= calculate_retreat_cost(state, me.active[1])
       /\ \A a \in get_legal_actions(state) : a.action_type \notin OncePerTurnKinds

\* the selection that fills the top step: the last one of an exact_count
\* SelectFromZone step, or the one that brings a SearchDeck step to its count
FillsTopStep(s, a) ==
    /\ a.action_type = "SELECT_CARD"
    /\ Len(s.resolution_stack) > 0
    /\ Len(Top(s).selected_card_ids) + 1 = Top(s).count
    /\ \/ Top(s).step_type = "SELECT_FROM_ZONE" /\ Top(s).exact_count
       \/ Top(s).step_type = "SEARCH_DECK"

\* C16: the step call that applies such a SelectCard also completes the step
\* and pops it: the returned stack is the input stack without its top step,
\* and a SearchDeck step's selection has left the deck.
C16_AutoComplete ==
    \A a \in get_legal_actions(state) :
       FillsTopStep(state, a) =>
          \E t \in {StepOf(a).st} :
             /\ t.resolution_stack =
                   SubSeq(state.resolution_stack, 1, Len(state.resolution_stack) - 1)
             /\ Top(state).step_type = "SEARCH_DECK"
                => \A k \in DOMAIN t.players[Top(state).player_id].deck :
                      t.players[Top(state).player_id].deck[k].id # a.card_id

\* the second of two exact selections is about to be made
C16_Witness ==
    /\ Len(state.resolution_stack) > 0
    /\ Top(state).step_type = "SELECT_FROM_ZONE"
    /\ Top(state).exact_count
    /\ Len(Top(state).selected_card_ids) >= 1
    /\ \E a \in get_legal_actions(state) : FillsTopStep(state, a)

\* the steps Dawn pushed that are still on the stack, bottom first, each named
\* by the stage it searches for
IsDawnStep(x) == x.source_card_id # "" /\ DefIdOf[x.source_card_id] = "me2-87"

StageOf(x) == CHOOSE v \in {"Basic", "Stage 1", "Stage 2"} : <<"subtype", v>> \in x.filter_criteria

DawnStages(s) ==
    LET steps == SelectSeq(s.resolution_stack, IsDawnStep)
    IN [k \in DOMAIN steps |-> StageOf(steps[k])]

DawnPushOrder == <<"Stage 2", "Stage 1", "Basic">>

\* C17: Dawn's searches resolve in reverse push order.  Playing Dawn leaves the
\* Stage 2, Stage 1 and Basic searches on the stack, the Basic one on top; the
\* searches left at any time are the first ones pushed; the player is offered
\* only cards of the stage of the top search; and the deck is shuffled (the
\* generator drawn from) by exactly the steps that complete the Stage 2
\* search, every other search leaving the remaining deck in its order.
C17_DawnOrder ==
    /\ \E n \in 0..3 : DawnStages(state) = SubSeq(DawnPushOrder, 1, n)
    /\ \A a \in get_legal_actions(state) :
          \E r \in {StepOf(a)} :
             LET n == Len(state.resolution_stack)
                 completes == n > 0 /\ IsDawnStep(Top(state))
                              /\ Len(r.st.resolution_stack) < n
                 pid == state.active_player_index
                 removed == IF n = 0 THEN {}
                            ELSE Range(Top(state).selected_card_ids)
                                 \cup (IF a.action_type = "SELECT_CARD"
                                       THEN {a.card_id} ELSE {})
                 rest == SelectSeq(state.players[pid].deck,
                                   LAMBDA c : c.id \notin removed)
             IN /\ (a.action_type = "PLAY_SUPPORTER" /\ DefIdOf[a.card_id] = "me2-87")
                   => /\ DawnStages(r.st) = DawnPushOrder
                      /\ r.rng_ = rng_
                /\ (n > 0 /\ IsDawnStep(Top(state)) /\ a.action_type = "SELECT_CARD")
                   => StageOf(Top(state)) \in DefById(a.card_id).subtypes
                /\ (completes /\ StageOf(Top(state)) # "Stage 2")
                   => /\ r.st.players[pid].deck = rest
                      /\ r.rng_ = rng_
                /\ (completes /\ StageOf(Top(state)) = "Stage 2")
                   => /\ r.st.players[pid].deck = ShuffleSeq(rest, rng_)
                      /\ Len(rest) > 1 => r.rng_ = RngNext(rng_)
                /\ r.rng_ # rng_ => completes /\ StageOf(Top(state)) = "Stage 2"

\* the Basic and the Stage 1 Pokemon were found and the Stage 2 search, the
\* last one left, can find its card in a deck of several
C17_Witness ==
    /\ DawnStages(state) = <<"Stage 2">>
    /\ Len(state.resolution_stack) = 1
    /\ LET pl == state.players[state.active_player_index]
       IN /\ \E k \in DOMAIN pl.hand : "Basic" \in Def(pl.hand[k]).subtypes
          /\ \E k \in DOMAIN pl.hand : "Stage 1" \in Def(pl.hand[k]).subtypes
          /\ Len(pl.deck) > 2
    /\ \E a \in get_legal_actions(state) :
          a.action_type = "SELECT_CARD" /\ "Stage 2" \in DefById(a.card_id).subtypes

\* two bench selections, one per player, are all there is to resolve
TwoBenchSteps(s) ==
    /\ Len(s.resolution_stack) = 2
    /\ \A k \in 1..2 : s.resolution_stack[k].zone = "BENCH"
    /\ s.resolution_stack[1].player_id # s.resolution_stack[2].player_id

\* C18: after switch_active with opponent_also, both players having a bench,
\* the step that resolves first (the top of the stack) is the invoking
\* player's and the one that resolves last is the opponent's.
C18_InvokerResolvesFirst ==
    TwoBenchSteps(state) =>
       /\ Top(state).player_id = state.active_player_index
       /\ state.resolution_stack[1].player_id = 1 - state.active_player_index

\* the defending active Pokemon as a legal Attack of the player to move
\* leaves it: its damage counters after the attack's damage
HitBy(s, a) ==
    LET attacker == s.players[a.player_id].active[1]
        defender == s.players[1 - a.player_id].active[1]
        attack == CHOOSE x \in Range(Def(attacker).attacks) : x.name = a.attack_name
    IN IF attack.base_damage > 0
       THEN apply_damage(defender,
                         calculate_damage(s, attacker, defender, attack.base_damage))
       ELSE defender

\* a legal Attack on an active Pokemon that ends with damage_counters x 10 >= HP
Knockouts(s) ==
    {a \in get_legal_actions(s) :
       /\ a.action_type = "ATTACK"
       /\ has_active(s.players[1 - a.player_id])
       /\ HitBy(s, a).damage_counters * 10 >= Def(HitBy(s, a)).hp}

\* C19: after such an Attack the defender and every Energy and Tool that was
\* attached to it are in the discard pile of the defender's player, and that
\* player's active spot is empty.
C19_KnockoutDiscards ==
    \A a \in Knockouts(state) :
       \E t \in {StepOf(a).st} :
          LET d == state.players[1 - a.player_id].active[1]
          IN /\ t.players[1 - a.player_id].active = <<>>
             /\ ({d.id} \cup Range(d.attached_energy) \cup Range(d.attached_tools))
                   \subseteq Ids(t.players[1 - a.player_id].discard)

\* a Pokemon that carried an Energy and a Tool has been knocked out
C19_Witness ==
    /\ state.players[0].active = <<>>
    /\ {"e0", "q0"} \subseteq Ids(state.players[0].discard)
    /\ Ids(state.players[0].discard) \cap Defenders # {}
    /\ state.players[1].prizes_taken > 0

\* the prize value of a knocked out Pokemon as the claim gives it
StatedPrizeValue(def) ==
    IF "VMAX" \in def.subtypes THEN 3
    ELSE IF def.subtypes \cap {"ex", "V", "VSTAR", "GX"} # {} THEN 2
    ELSE 1

Min(x, y) == IF x <= y THEN x ELSE y

\* C20: on a knockout by attack the attacking player moves min(v, remaining
\* prizes) prize cards to hand and prizes_taken grows by that number, v being
\* 1 for a normal Pokemon, 2 for ex, V, VSTAR and GX, 3 for VMAX.
C20_PrizesForKnockout ==
    \A a \in Knockouts(state) :
       \E t \in {StepOf(a).st.players[a.player_id]} :
          LET me == state.players[a.player_id]
              d == state.players[1 - a.player_id].active[1]
              n == Min(StatedPrizeValue(Def(d)), Len(me.prizes))
              taken == {me.prizes[k].id : k \in (Len(me.prizes) - n + 1)..Len(me.prizes)}
          IN /\ t.prizes_taken = me.prizes_taken + n
             /\ t.prizes = SubSeq(me.prizes, 1, Len(me.prizes) - n)
             /\ Ids(t.hand) = Ids(me.hand) \cup taken
             /\ Len(t.hand) = Len(me.hand) + n

\* a VMAX was knocked out by a player who had two prize cards left
C20_Witness ==
    /\ "m0" \in Ids(state.players[0].discard)
    /\ state.players[1].prizes_taken = 2
    /\ Len(state.players[1].prizes) = 0
    /\ {"p11", "p12"} \subseteq Ids(state.players[1].hand)

\* the Pokemon in play of the acting player before and after a legal Evolve,
\* lined up position by position
EvolveTarget(s, a) == IndexOfId(get_all_pokemon(s.players[a.player_id]), a.target_id)

Evolutions(s) == {a \in get_legal_actions(s) : a.action_type = "EVOLVE"}

\* C21: a legal Evolve puts the evolution card where its target was, with the
\* target's damage counters, attached Energy, attached Tools and turns in play,
\* the target as its latest previous stage, evolved_this_turn set, and no
\* status condition or attack effect; the evolution card has left the hand.
C21_EvolveFrame ==
    \A a \in Evolutions(state) :
       \E t \in {StepOf(a).st} :
          LET me == state.players[a.player_id]
              k == EvolveTarget(state, a)
              old == get_all_pokemon(me)[k]
              new == get_all_pokemon(t.players[a.player_id])[k]
          IN /\ k # 0
             /\ Len(t.players[a.player_id].active) = Len(me.active)
             /\ Len(t.players[a.player_id].bench) = Len(me.bench)
             /\ new.id = a.card_id
             /\ a.card_id \notin Ids(t.players[a.player_id].hand)
             /\ new.damage_counters = old.damage_counters
             /\ new.attached_energy = old.attached_energy
             /\ new.attached_tools = old.attached_tools
             /\ new.turns_in_play = old.turns_in_play
             /\ Len(new.previous_stages) > 0
             /\ new.previous_stages[Len(new.previous_stages)] = old.id
             /\ new.evolved_this_turn
             /\ new.status = {}
             /\ new.attack_effects = <<>>

\* a hit Pokemon under a Special Condition and an attack effect, carrying an
\* Energy and a Tool, has a legal Evolve
C21_Witness ==
    \E a \in Evolutions(state) :
       LET old == get_all_pokemon(state.players[a.player_id])[EvolveTarget(state, a)]
       IN /\ old.status # {}
          /\ old.attack_effects # <<>>
          /\ old.damage_counters > 0
          /\ Len(old.attached_energy) > 0
          /\ Len(old.attached_tools) > 0

\* the actions the Rare Candy generator offers for a Rare Candy card in the
\* hand of the player to move, each with the card it was built for
RareCandyPlays(s) ==
    {<<card, action>> \in Range(s.players[s.active_player_index].hand)
                            \X UNION {rare_candy_generator(s, c) :
                                        c \in Range(s.players[s.active_player_index].hand)} :
       card.card_id = "sv1-191" /\ action.card_id = card.id}

\* C22: applying a Rare Candy action for a pair (B, S2) leaves a Pokemon of
\* S2's definition where B was, with B's damage counters, attached Energy and
\* Tools and turns in play, evolved_this_turn set and no status condition.
C22_RareCandyFrame ==
    \A play \in RareCandyPlays(state) :
       \E t \in {execute_rare_candy(state, play[1], play[2]).st} :
          LET me == state.players[state.active_player_index]
              k == IndexOfId(get_all_pokemon(me), play[2].target_id)
              old == get_all_pokemon(me)[k]
              new == get_all_pokemon(t.players[state.active_player_index])[k]
          IN /\ new.card_id = DefIdOf[play[2].stage2_id]
             /\ new.damage_counters = old.damage_counters
             /\ new.attached_energy = old.attached_energy
             /\ new.attached_tools = old.attached_tools
             /\ new.turns_in_play = old.turns_in_play
             /\ new.evolved_this_turn
             /\ new.status = {}

Retreats(s) == {a \in get_legal_actions(s) : a.action_type = "RETREAT"}

\* C23: a legal Retreat moves as many Energy cards as the retreat cost from
\* the retreating Pokemon to its player's discard pile, the earliest attached
\* first, puts the chosen benched Pokemon in the active spot and the
\* retreating one on the bench, and sets retreated_this_turn.
C23_RetreatPaysOldestFirst ==
    \A a \in Retreats(state) :
       \E t \in {StepOf(a).st.players[a.player_id]} :
          LET me == state.players[a.player_id]
              old == me.active[1]
              cost == calculate_retreat_cost(state, old)
              en == old.attached_energy
              k == IndexOfId(t.bench, old.id)
          IN /\ t.active # <<>> /\ t.active[1].id = a.target_id
             /\ k # 0
             /\ t.bench[k].attached_energy = SubSeq(en, cost + 1, Len(en))
             /\ Ids(t.discard) = Ids(me.discard) \cup Range(SubSeq(en, 1, cost))
             /\ Len(t.discard) = Len(me.discard) + cost
             /\ t.retreated_this_turn


\* ------------------------------------------------------------------------
\* Ultra Ball played from the hand (ultra_ball.cpp, effect_builders.cpp)
\* ------------------------------------------------------------------------
IsUltraBall(s, id) == \E j \in 1..Len(s.players[s.active_player_index].hand) : s.players[s.active_player_index].hand[j].id = id /\ s.players[s.active_player_index].hand[j].card_id = "sv1-196"

UltraBallDiscardStep(s) ==
    /\ Len(s.resolution_stack) > 0
    /\ Top(s).step_type = "SELECT_FROM_ZONE"
    /\ Top(s).zone = "HAND"
    /\ Top(s).on_complete = "discard_then:ultra_ball_search"

\* C24: with Ultra Ball and at least two other cards in hand, PlayItem(Ultra
\* Ball) pushes a hand selection of exactly 2 that excludes the Ultra Ball;
\* after the second selection the two chosen cards are in the discard pile and
\* a deck search for a Pokemon with min_count 0 is on top of the stack.
C24_UltraBallDiscardThenSearch ==
    \A a \in get_legal_actions(state) :
       \E r \in {StepOf(a)} :
          /\ (/\ a.action_type = "PLAY_ITEM"
              /\ IsUltraBall(state, a.card_id)
              /\ Len(state.players[state.active_player_index].hand) >= 3)
             => /\ Len(r.st.resolution_stack) = Len(state.resolution_stack) + 1
                /\ Top(r.st).step_type = "SELECT_FROM_ZONE"
                /\ Top(r.st).zone = "HAND"
                /\ Top(r.st).count = 2
                /\ Top(r.st).min_count = 2
                /\ Top(r.st).exact_count
                /\ Top(r.st).exclude_card_ids = <<a.card_id>>
          /\ (/\ a.action_type = "SELECT_CARD"
              /\ UltraBallDiscardStep(state)
              /\ Len(Top(state).selected_card_ids) = 1)
             => /\ \A id \in {Top(state).selected_card_ids[1], a.card_id} :
                      \E j \in 1..Len(r.st.players[a.player_id].discard) :
                         r.st.players[a.player_id].discard[j].id = id
                /\ Len(r.st.resolution_stack) > 0
                /\ Top(r.st).step_type = "SEARCH_DECK"
                /\ Top(r.st).filter_criteria = {<<"supertype", "Pokemon">>}
                /\ Top(r.st).min_count = 0


\* C25: while the active player's bench is full, no PlayItem action for a Nest
\* Ball in hand is among the legal actions.
C25_NoNestBallOnFullBench ==
    (/\ state.result = "ONGOING"
     /\ ~can_add_to_bench(state.players[state.active_player_index]))
    => \A a \in get_legal_actions(state) :
          a.action_type = "PLAY_ITEM"
          => \A j \in 1..Len(state.players[state.active_player_index].hand) :
                state.players[state.active_player_index].hand[j].id = a.card_id
                => Def(state.players[state.active_player_index].hand[j]).name # "Nest Ball"


BossOrdersInHand(s) ==
    {k \in DOMAIN s.players[s.active_player_index].hand :
       s.players[s.active_player_index].hand[k].card_id = "me1-114"}

SupporterPlayable(s) ==
    /\ s.result = "ONGOING"
    /\ s.current_phase = "MAIN"
    /\ s.resolution_stack = <<>>
    /\ ~s.players[s.active_player_index].supporter_played_this_turn
    /\ ~(s.turn_count = 1 /\ s.active_player_index = s.starting_player_id)

\* C26: with Boss's Orders in hand and a Supporter playable, every Pokemon X on
\* the opponent's bench has a legal PlaySupporter(Boss's Orders) with target X,
\* and applying it makes X the opponent's active Pokemon and benches the
\* former active.
C26_BossOrdersPerTarget ==
    SupporterPlayable(state) =>
       \A k \in BossOrdersInHand(state) :
          \A x \in get_opponent_bench_targets(state, state.active_player_index) :
             \E a \in get_legal_actions(state) :
                /\ a.action_type = "PLAY_SUPPORTER"
                /\ a.card_id = state.players[state.active_player_index].hand[k].id
                /\ a.target_id = x
                /\ \E r \in {StepOf(a)} :
                      /\ r.st.players[1 - state.active_player_index].active[1].id = x
                      /\ \E j \in DOMAIN r.st.players[1 - state.active_player_index].bench :
                            r.st.players[1 - state.active_player_index].bench[j].id =
                               state.players[1 - state.active_player_index].active[1].id


RecoveryStep(s, purpose) ==
    /\ Len(s.resolution_stack) > 0
    /\ Top(s).step_type = "SELECT_FROM_ZONE"
    /\ Top(s).zone = "DISCARD"
    /\ Top(s).purpose = purpose

ZoneIds(zone) == {zone[k].id : k \in DOMAIN zone}

\* the selection a step ends with when action a completes it
FinalSelection(s, a) ==
    Range(Top(s).selected_card_ids)
       \cup (IF a.action_type = "SELECT_CARD" THEN {a.card_id} ELSE {})

\* C27: when a shuffle_discard_to_deck selection completes, every selected
\* card has left the discard pile and is in the player's deck; when a
\* recover_from_discard selection completes, every selected card is in the
\* player's hand.
C27_RecoveredCardsMove ==
    \A a \in get_legal_actions(state) :
       \E r \in {StepOf(a)} :
          /\ (/\ RecoveryStep(state, "RECOVER_TO_DECK")
              /\ Len(r.st.resolution_stack) < Len(state.resolution_stack))
             => /\ FinalSelection(state, a) \cap ZoneIds(r.st.players[Top(state).player_id].discard) = {}
                /\ FinalSelection(state, a) \subseteq ZoneIds(r.st.players[Top(state).player_id].deck)
          /\ (/\ RecoveryStep(state, "RECOVER_TO_HAND")
              /\ Len(r.st.resolution_stack) < Len(state.resolution_stack))
             => FinalSelection(state, a) \subseteq ZoneIds(r.st.players[Top(state).player_id].hand)


\* C28: an active effect is removed once is_expired holds for it: after an
\* action that ends the turn, no effect that is expired at the new turn (such
\* as Briar's, created with duration 1 in the turn that ended) is left in
\* active_effects.
C28_ExpiredEffectsRemoved ==
    \A a \in get_legal_actions(state) :
       \E r \in {StepOf(a)} :
          r.st.turn_count > state.turn_count
          => \A k \in DOMAIN r.st.active_effects :
                ~is_expired(r.st.active_effects[k], r.st.turn_count,
                            r.st.active_player_index, "main")


HasUnknownKey(filter) == \E kv \in filter : kv[1] \notin RecognizedKeys

\* C29: a filter with a key outside the recognized key set matches no card,
\* in the engine's matcher (no card of the searched deck is offered for
\* selection) and in the effect builders' matcher (the deck has no matching
\* card).
C29_UnknownKeyFailsClosed ==
    (/\ Len(state.resolution_stack) > 0
     /\ Top(state).step_type = "SEARCH_DECK"
     /\ HasUnknownKey(Top(state).filter_criteria))
    => /\ \A k \in DOMAIN state.players[Top(state).player_id].deck :
             ~card_matches_filter(state.players[Top(state).player_id].deck[k],
                                  Top(state).filter_criteria)
       /\ \A a \in get_legal_actions(state) : a.action_type # "SELECT_CARD"
       /\ ~deck_has_matching_cards(state, Top(state).player_id,
                                   Top(state).filter_criteria)


\* the damage of an attack when a damage_dealt modifier counts only if it is
\* registered for the attacker's card and a damage_taken modifier only if it
\* is registered for the defender's card
InvolvedDamage(attacker, defender, base_damage) ==
    LET d == base_damage
               + SumDeltas({m \in modifiers_ : /\ m.context = "damage_dealt"
                                               /\ m.card_id = attacker.card_id})
               + SumDeltas({m \in modifiers_ : /\ m.context = "damage_taken"
                                               /\ m.card_id = defender.card_id})
    IN IF d < 0 THEN 0 ELSE d

BaseDamage(attacker, attack_name) ==
    LET attacks == Def(attacker).attacks
    IN attacks[CHOOSE k \in DOMAIN attacks : attacks[k].name = attack_name].base_damage

\* C30: a damage_dealt modifier changes an attack's damage only when its card
\* is the attacker, a damage_taken modifier only when its card is the
\* defender; modifiers registered for other cards do not change the damage an
\* attack does.
C30_ModifiersOfInvolvedCardsOnly ==
    \A a \in get_legal_actions(state) :
       a.action_type = "ATTACK" =>
          \E attacker \in {state.players[a.player_id].active[1]} :
             \E defender \in {state.players[1 - a.player_id].active[1]} :
                \E r \in {StepOf(a)} :
                   \E due \in {InvolvedDamage(attacker, defender,
                                              BaseDamage(attacker, a.attack_name))} :
                      /\ calculate_damage(state, attacker, defender,
                                          BaseDamage(attacker, a.attack_name)) = due
                      /\ \A k \in DOMAIN r.st.players[1 - a.player_id].active :
                            r.st.players[1 - a.player_id].active[k].id = defender.id
                            => r.st.players[1 - a.player_id].active[k].damage_counters
                                 = defender.damage_counters + (due \div 10)


\* the four stages of the damage pipeline as the claim names them
StageD(x) == x + SumDeltas({m \in modifiers_ : m.context = "damage_dealt"})

StageW(attacker, defender, x) ==
    LET weak == Def(defender).weakness \in Def(attacker).types
        resists == Def(defender).resistance \in Def(attacker).types
        multiplied == IF weak THEN x * Def(defender).weakness_multiplier ELSE x
    IN IF resists THEN multiplied + Def(defender).resistance_value ELSE multiplied

StageT(x) == x + SumDeltas({m \in modifiers_ : m.context = "damage_taken"})

StageG(s, x) == x + scan_global_modifiers(s, "global_damage")

Max0(x) == IF x > 0 THEN x ELSE 0

PipelineDamage(s, attacker, defender, base) ==
    Max0(StageG(s, StageT(StageW(attacker, defender, StageD(base)))))

\* the defender of an attack after it: still active, or knocked out and in its
\* player's discard pile
DefenderAfter(s, opp, id) ==
    {c \in Range(s.players[opp].active) \cup Range(s.players[opp].discard) : c.id = id}

WithoutStatus(s) ==
    [s EXCEPT !.players[s.active_player_index].active[1].status = {}]

\* C32: while the active Pokemon of the player to move is Asleep or Paralyzed,
\* no Retreat and no Attack action is legal.
C32_NoRetreatNoAttackWhenAsleepOrParalyzed ==
    \E pl \in {state.players[state.active_player_index]} :
       (/\ has_active(pl)
        /\ pl.active[1].status \cap {"ASLEEP", "PARALYZED"} # {})
       => \A a \in get_legal_actions(state) : a.action_type \notin {"RETREAT", "ATTACK"}

\* a Paralyzed active Pokemon that could both retreat and attack otherwise
C32_Witness ==
    \E pl \in {state.players[state.active_player_index]} :
       /\ has_active(pl)
       /\ "PARALYZED" \in pl.active[1].status
       /\ \E a \in get_legal_actions(WithoutStatus(state)) : a.action_type = "RETREAT"
       /\ \E a \in get_legal_actions(WithoutStatus(state)) : a.action_type = "ATTACK"

\* the same for an Asleep active Pokemon
C32_WitnessAsleep ==
    \E pl \in {state.players[state.active_player_index]} :
       /\ has_active(pl)
       /\ "ASLEEP" \in pl.active[1].status
       /\ \E a \in get_legal_actions(WithoutStatus(state)) : a.action_type = "RETREAT"
       /\ \E a \in get_legal_actions(WithoutStatus(state)) : a.action_type = "ATTACK"


\* C33: with a stadium in play, no PlayStadium action is legal for a card in
\* hand whose definition has the name of the stadium in play.
C33_NoStadiumOfSameName ==
    Len(state.stadium) > 0 =>
       \A a \in get_legal_actions(state) :
          a.action_type = "PLAY_STADIUM" =>
             \A c \in Range(state.players[a.player_id].hand) :
                c.id = a.card_id => Def(c).name # Def(state.stadium[1]).name

\* player 1 may play a stadium, one printing of Area Zero Underdepths is in
\* play and player 1 holds another printing of it and a stadium of another name
C33_Witness ==
    /\ Len(state.stadium) > 0
    /\ state.stadium[1].id = "t2"
    /\ state.active_player_index = 1
    /\ ~state.players[1].stadium_played_this_turn
    /\ \E c \in Range(state.players[1].hand) : c.id = "t1"
    /\ Act("PLAY_STADIUM", 1, "v1", "", "") \in get_legal_actions(state)

\* the bench size the registry answers for the player to move
BenchSizeQuery(s) == get_stadium_bench_size(s, s.active_player_index)

HoldsBasic(pl) == \E c \in Range(pl.hand) : is_basic_pokemon(Def(c))

\* C36: the bench capacity enforced on play agrees with the bench size query:
\* in Main with an empty resolution stack, a player holding a Basic Pokemon has
\* a legal PlayBasic exactly when its bench is smaller than the size queried.
C36_BenchCapacityAgreesWithQuery ==
    \E pl \in {state.players[state.active_player_index]} :
       (/\ state.current_phase = "MAIN"
        /\ state.result = "ONGOING"
        /\ Len(state.resolution_stack) = 0
        /\ has_active(pl)
        /\ HoldsBasic(pl))
       => ((\E a \in get_legal_actions(state) : a.action_type = "PLAY_BASIC")
           <=> get_bench_count(pl) < BenchSizeQuery(state))


CountersOf(s, id) == {c.damage_counters : c \in {d \in AllCards(s) : d.id = id}}

\* C34: heal_damage removes floor(amount / 10) damage counters from its target
\* and never takes the counters below zero; with an amount of at least the
\* target's damage, healing twice leaves what healing once leaves.
C34_HealDamage ==
    \A target_id \in HealTargets : \A amount \in HealAmounts :
       \E once \in {heal_damage(state, target_id, amount)} :
          \A before \in CountersOf(state, target_id) :
             /\ once.success
             /\ CountersOf(once.st, target_id) =
                   {IF before - (amount \div 10) > 0 THEN before - (amount \div 10) ELSE 0}
             /\ amount >= 10 * before =>
                   heal_damage(once.st, target_id, amount).st = once.st

\* Theta, hit for 30 by a typeless attacker with no modifier registered, has
\* been healed since: a further heal of 10 leaves it undamaged, one of 200
\* would take its counters below zero
C34_Witness ==
    /\ state.turn_count = 3
    /\ modifiers_ = {}
    /\ state.players[1].active[1].id = "z1"
    /\ state.players[0].active # <<>>
    /\ state.players[0].active[1].id = "t0"
    /\ state.players[0].active[1].damage_counters = 1


\* C35: in every reachable state with result Ongoing and a non-empty
\* resolution stack, some action is legal, also when the top step selects
\* from the bench.
C35_StackNeverStalls ==
    (state.result = "ONGOING" /\ Len(state.resolution_stack) > 0)
       => get_legal_actions(state) # {}


\* C37: a SelectFromZone step never holds more selected ids than its count,
\* and once count ids are selected no further SelectCard is legal for it.
C37_SelectionWithinCount ==
    \A k \in DOMAIN state.resolution_stack :
       \E stp \in {state.resolution_stack[k]} :
          stp.step_type = "SELECT_FROM_ZONE" =>
             /\ Len(stp.selected_card_ids) <= stp.count
             /\ (k = Len(state.resolution_stack) /\ Len(stp.selected_card_ids) >= stp.count)
                   => \A a \in get_legal_actions(state) : a.action_type # "SELECT_CARD"


IonoIds == {"svp-124", "sv2-185", "sv2-254", "sv2-269", "sv4pt5-80", "sv4pt5-237"}

IdsOf(zone) == {zone[k].id : k \in DOMAIN zone}

\* C38: all draws take from the same end of the deck: when the player to move
\* plays Iono, the card the opponent draws at the start of its next turn is
\* one of the cards Iono put on the bottom of its deck only if its deck holds
\* no other card.
C38_DrawsFromOneEnd ==
    \E p \in {state.active_player_index} :
       (/\ state.current_phase = "MAIN"
        /\ state.result = "ONGOING"
        /\ Len(state.resolution_stack) = 0)
       => \A k \in DOMAIN state.players[p].hand :
             state.players[p].hand[k].card_id \in IonoIds =>
                \E played \in {execute_iono(
                                  [state EXCEPT !.players[p].hand =
                                      take_card(@, state.players[p].hand[k].id).zone],
                                  state.players[p].hand[k]).st} :
                   \E next \in {start_turn([played EXCEPT !.active_player_index = 1 - p])} :
                      \A id \in IdsOf(next.players[1 - p].hand)
                                   \ IdsOf(played.players[1 - p].hand) :
                         id \in IdsOf(state.players[1 - p].hand)
                            => IdsOf(played.players[1 - p].deck)
                                  \subseteq IdsOf(state.players[1 - p].hand)


\* the player to move is in Setup without an active Pokemon and without a
\* Basic Pokemon in hand
MustMulligan(s) ==
    /\ s.current_phase = "SETUP"
    /\ s.result = "ONGOING"
    /\ ~has_active(s.players[s.active_player_index])
    /\ ~HoldsBasic(s.players[s.active_player_index])

\* C39: Setup cannot stall: for a player without a Basic Pokemon in hand,
\* applying the legal RevealHandMulligan changes the state.
C39_MulliganChangesState ==
    MustMulligan(state) =>
       \A a \in get_legal_actions(state) :
          a.action_type = "REVEAL_HAND_MULLIGAN" => StepOf(a).st # state

\* C39, the progress half: a player without a Basic Pokemon in hand eventually
\* has an active Pokemon.
C39_EventuallyPlacesActive ==
    \A p \in Players :
       (MustMulligan(state) /\ state.active_player_index = p)
          ~> has_active(state.players[p])


\* C40: for every card and every filter built only from recognized keys, the
\* engine's card_matches_filter and the effect builders' card_matches_filter
\* give the same answer.
C40_MatchersAgree ==
    \A filter \in Filters :
       ~HasUnknownKey(filter) =>
          \A card \in AllCards(state) :
             card_matches_filter(card, filter)
                <=> effects_card_matches_filter(Def(card), filter)

====
